---- MODULE Spec2Model ----
(***************************************************************************)
(* Model of the triage core of the repository:                             *)
(*   - the 3-state circuit breaker  (backend/app/engine/circuit.py)        *)
(*   - the triage state machine     (backend/app/engine/fsm_orchestrator.py)*)
(*   - the validator and the rules  (backend/app/engine/sanity.py, rules.py)*)
(*   - the terminal-state handling of submit_triage (backend/app/api/triage.py)*)
(*                                                                         *)
(* Decimal quantities are carried as integers: temperatures, oxygen and    *)
(* sugar in tenths (38.5 -> 385), confidences in hundredths (0.65 -> 65).  *)
(* Wall-clock time is the integer variable now, in seconds.                *)
(***************************************************************************)
EXTENDS Integers, Sequences, FiniteSets, TLC

VARIABLES
    cb,             \* the CircuitBreaker object: state, failure_count, success_count, last_failure_time
    now,            \* time.time()
    caller_pc,      \* per direct caller of CircuitBreaker.call: "idle", "invoked" (awaiting func), "done"
    caller_result,  \* per direct caller: what its last call gave: "none", "returned", "raised", "CircuitBreakerOpen"
    streak,         \* history: failed calls completed since the last successful call completed
    probes,         \* history: who has a call in flight that was invoked in the current
                    \* HALF_OPEN period (a direct caller, or 0 for the triage run)
    probe_successes,\* history: how many calls invoked in the current HALF_OPEN period have
                    \* succeeded in it
    concurrent,     \* history: the direct callers whose current call ran while another
                    \* direct caller's call was in flight
    hitl_threshold, \* TriageStateMachine.hitl_threshold, in hundredths
    ctx,            \* the FSMContext of the run
    pc,             \* where the run is: "running" (in execute's loop), "awaiting" (suspended in
                    \* breaker.call), "returned" (execute returned), "escaped" (an exception left
                    \* execute), "responded" (submit_triage handled the terminal state)
    predictor_call, \* what the run's breaker.call did: "none", "in_flight", "returned", "raised",
                    \* "CircuitBreakerOpen"
    decisions,      \* the triage_decisions collection
    response,       \* what submit_triage answered for the run
    sub,            \* per submission to POST /triage: pc ("idle", "building", "executing",
                    \* "answered"), client_sync_uuid, time of the idempotency check, the
                    \* submissions answered before it (history), its machine, its answer
    client,         \* per direct client of the repository: pc ("idle", "saving", "resolving",
                    \* "done"), the arguments of its call and the result
    accepted        \* history: per document _id, the resolve calls that returned True

breakerVars == <<cb, now, caller_pc, caller_result, streak, probes, probe_successes,
                 concurrent>>

fsmVars == <<hitl_threshold, ctx, pc, predictor_call, decisions, response>>

storeVars == <<sub, client, accepted>>

vars == <<cb, now, caller_pc, caller_result, streak, probes, probe_successes, concurrent,
          hitl_threshold, ctx, pc, predictor_call, decisions, response,
          sub, client, accepted>>

----------------------------------------------------------------------------
(* Bounds of the model.  The three breaker settings are read from the      *)
(* environment (defaults 5, 60 and 3); the model runs them scaled down.    *)

FailureThreshold == 3
TimeoutSeconds == 2
HalfOpenAttempts == 2
NumCallers == 2
MaxTime == 6

Callers == 1..NumCallers

Min(a, b) == IF a < b THEN a ELSE b

----------------------------------------------------------------------------
(* CircuitBreaker                                                          *)

CircuitStates == {"CLOSED", "OPEN", "HALF_OPEN"}

\* CircuitBreaker.__init__
NewBreaker ==
    [state |-> "CLOSED", failure_count |-> 0, success_count |-> 0, last_failure_time |-> 0]

\* mutant of transition_to_open: the half-open success counter is left as it was
transition_to_open_keeps_successes(b) ==
    [b EXCEPT !.state = "OPEN"]

transition_to_open(b) ==
    [b EXCEPT !.state = "OPEN", !.success_count = 0]

transition_to_half_open(b) ==
    [b EXCEPT !.state = "HALF_OPEN", !.success_count = 0, !.failure_count = 0]

\* mutant of transition_to_closed: the half-open success counter is left as it was
transition_to_closed_keeps_successes(b) ==
    [b EXCEPT !.state = "CLOSED", !.failure_count = 0]

transition_to_closed(b) ==
    [b EXCEPT !.state = "CLOSED", !.failure_count = 0, !.success_count = 0]

\* mutant of on_success: the HALF_OPEN branch closes one success late (> instead of >=)
on_success_closes_late(b) ==
    IF b.state = "HALF_OPEN"
    THEN LET b1 == [b EXCEPT !.success_count = @ + 1]
         IN  IF b1.success_count > HalfOpenAttempts THEN transition_to_closed(b1) ELSE b1
    ELSE IF b.state = "CLOSED"
         THEN IF b.failure_count > 0 THEN [b EXCEPT !.failure_count = 0] ELSE b
         ELSE b

\* mutant of on_success: a success on a HALF_OPEN breaker is not counted
on_success_closed_only(b) ==
    IF b.state = "CLOSED"
    THEN IF b.failure_count > 0 THEN [b EXCEPT !.failure_count = 0] ELSE b
    ELSE b

\* mutant of on_success: a success on a CLOSED breaker takes one failure off the count
on_success_counts_down(b) ==
    IF b.state = "HALF_OPEN"
    THEN LET b1 == [b EXCEPT !.success_count = @ + 1]
         IN  IF b1.success_count >= HalfOpenAttempts THEN transition_to_closed(b1) ELSE b1
    ELSE IF b.state = "CLOSED"
         THEN IF b.failure_count > 0 THEN [b EXCEPT !.failure_count = @ - 1] ELSE b
         ELSE b

\* mutant of on_success: the CLOSED branch forgets to reset the failure counter
on_success_no_reset(b) ==
    IF b.state = "HALF_OPEN"
    THEN LET b1 == [b EXCEPT !.success_count = @ + 1]
         IN  IF b1.success_count >= HalfOpenAttempts THEN transition_to_closed(b1) ELSE b1
    ELSE b

on_success(b) ==
    IF b.state = "HALF_OPEN"
    THEN LET b1 == [b EXCEPT !.success_count = @ + 1]
         IN  IF b1.success_count >= HalfOpenAttempts THEN transition_to_closed(b1) ELSE b1
    ELSE IF b.state = "CLOSED"
         THEN IF b.failure_count > 0 THEN [b EXCEPT !.failure_count = 0] ELSE b
         ELSE b

\* mutant of on_failure: the threshold test is > instead of >=
on_failure_late(b, t) ==
    LET b1 == [b EXCEPT !.failure_count = @ + 1, !.last_failure_time = t]
    IN  IF b1.state = "HALF_OPEN"
        THEN transition_to_open(b1)
        ELSE IF b1.state = "CLOSED"
             THEN IF b1.failure_count > FailureThreshold THEN transition_to_open(b1) ELSE b1
             ELSE b1

\* mutant of on_failure: a failure that completes on an OPEN breaker is not recorded
on_failure_ignored_when_open(b, t) ==
    LET b1 == [b EXCEPT !.failure_count = @ + 1, !.last_failure_time = t]
    IN  IF b.state = "HALF_OPEN"
        THEN transition_to_open(b1)
        ELSE IF b.state = "CLOSED"
             THEN IF b1.failure_count >= FailureThreshold THEN transition_to_open(b1) ELSE b1
             ELSE b

\* t is time.time() at the moment of the failure
on_failure(b, t) ==
    LET b1 == [b EXCEPT !.failure_count = @ + 1, !.last_failure_time = t]
    IN  IF b1.state = "HALF_OPEN"
        THEN transition_to_open(b1)
        ELSE IF b1.state = "CLOSED"
             THEN IF b1.failure_count >= FailureThreshold THEN transition_to_open(b1) ELSE b1
             ELSE b1

\* mutant of CooldownExpired: the comparison is >= instead of >
CooldownExpiredInclusive(b, t) ==
    t - b.last_failure_time >= TimeoutSeconds

\* the test of call() on an OPEN breaker: time.time() - last_failure_time > timeout_seconds
CooldownExpired(b, t) ==
    t - b.last_failure_time > TimeoutSeconds

\* mutant of call_enter: after the cooldown the breaker is closed without probation
call_enter_skips_probation(b, t) ==
    IF b.state = "OPEN"
    THEN IF CooldownExpired(b, t)
         THEN [cb |-> transition_to_closed(b), invoke |-> TRUE]
         ELSE [cb |-> b, invoke |-> FALSE]
    ELSE [cb |-> b, invoke |-> TRUE]

\* call(), from its entry to the point where func is invoked or CircuitBreakerOpen
\* is raised: the breaker after it, and whether func is invoked
call_enter(b, t) ==
    IF b.state = "OPEN"
    THEN IF CooldownExpired(b, t)
         THEN [cb |-> transition_to_half_open(b), invoke |-> TRUE]
         ELSE [cb |-> b, invoke |-> FALSE]
    ELSE [cb |-> b, invoke |-> TRUE]

\* the history variable after a completed call
StreakAfter(s, failed) ==
    IF failed THEN Min(s + 1, FailureThreshold + 1) ELSE 0

\* the history of the half-open period after `who` entered call(): e is call_enter(b, t)
ProbesAfterEnter(b, e, who, P) ==
    IF e.invoke /\ e.cb.state = "HALF_OPEN"
    THEN IF b.state = "OPEN" THEN {who} ELSE P \cup {who}
    ELSE P

ProbeSuccessesAfterEnter(b, e, n) ==
    IF b.state = "OPEN" /\ e.cb.state = "HALF_OPEN" THEN 0 ELSE n

\* the history after the call of `who` completed on breaker b, which became b1
ProbesAfterCall(b1, who, P) ==
    IF b1.state = "HALF_OPEN" THEN P \ {who} ELSE {}

ProbeSuccessesAfterSuccess(b, who, P, n) ==
    IF b.state = "HALF_OPEN" /\ who \in P THEN Min(n + 1, HalfOpenAttempts) ELSE n

\* the history of overlapping calls after `who` entered call(): inflight are the other
\* direct callers awaiting func at that moment
ConcurrentAfterEnter(e, who, inflight, C) ==
    IF e.invoke /\ inflight # {} THEN C \cup {who} \cup inflight ELSE C

----------------------------------------------------------------------------
(* SanityValidator: ClinicalVitals                                         *)
(* A raw input is the submitted key/value map: the eight vitals, the set   *)
(* `bad` of vitals fields that are missing or of the wrong type, the set    *)
(* `extra` of other field names it holds, and the length of its optional   *)
(* symptoms text (-1 when it has none).                                    *)

VitalFields ==
    {"age", "systolic_bp", "diastolic_bp", "heart_rate", "body_temp",
     "blood_oxygen", "blood_sugar", "gestational_weeks"}

\* Field(ge=..., le=...) of each field; the three decimal fields in tenths
FieldRange ==
    [age               |-> <<15, 60>>,
     systolic_bp       |-> <<70, 230>>,
     diastolic_bp      |-> <<40, 140>>,
     heart_rate        |-> <<45, 180>>,
     body_temp         |-> <<340, 420>>,
     blood_oxygen      |-> <<700, 1000>>,
     blood_sugar       |-> <<5, 300>>,
     gestational_weeks |-> <<1, 42>>]

\* Field(None, max_length=500) of the optional symptoms text
SymptomsMaxLength == 500

\* mutant of FieldErrors: the ranges exclude their ends (gt, lt)
FieldErrors_exclusive(raw) ==
    {f \in VitalFields :
        \/ f \in raw.bad
        \/ raw.vitals[f] <= FieldRange[f][1]
        \/ raw.vitals[f] >= FieldRange[f][2]}
    \cup (IF raw.symptoms > SymptomsMaxLength THEN {"symptoms"} ELSE {})

\* the fields pydantic reports: missing, wrongly typed or out of range
FieldErrors(raw) ==
    {f \in VitalFields :
        \/ f \in raw.bad
        \/ raw.vitals[f] < FieldRange[f][1]
        \/ raw.vitals[f] > FieldRange[f][2]}
    \cup (IF raw.symptoms > SymptomsMaxLength THEN {"symptoms"} ELSE {})

\* the model validator (mode 'after'): it runs only when no field failed
validate_blood_pressure(v) ==
    v.systolic_bp > v.diastolic_bp

\* ClinicalVitals(**raw): fields outside the model are ignored; the result is the
\* validated record (as a one-element sequence) or the error raised
ClinicalVitals(raw) ==
    IF FieldErrors(raw) # {}
    THEN [ok |-> FALSE, error |-> "field constraint", vitals |-> <<>>]
    ELSE IF ~validate_blood_pressure(raw.vitals)
         THEN [ok |-> FALSE, error |-> "ADVERSARIAL_INPUT", vitals |-> <<>>]
         ELSE [ok |-> TRUE, error |-> "None", vitals |-> <<raw.vitals>>]

----------------------------------------------------------------------------
(* RulesEngine: ClinicalRulesEngine.evaluate                               *)

HYPERTENSION_SBP_THRESHOLD == 140
HYPERTENSION_DBP_THRESHOLD == 90
HYPOXIA_THRESHOLD == 940
TACHYCARDIA_THRESHOLD == 120
HYPERTHERMIA_THRESHOLD == 385
HYPOGLYCEMIA_THRESHOLD == 30
HYPERGLYCEMIA_THRESHOLD == 110
ADVANCED_AGE_THRESHOLD == 35
POST_TERM_THRESHOLD == 40

RiskLevels == {"LOW", "MEDIUM", "HIGH", "CRITICAL"}

\* the order of the risk levels (risk_hierarchy of _merge_ml_and_rules)
risk_hierarchy(level) ==
    CASE level = "LOW" -> 0
      [] level = "MEDIUM" -> 1
      [] level = "HIGH" -> 2
      [] level = "CRITICAL" -> 3
      [] OTHER -> 0

\* mutant of ApplyRule: a rule that fires sets its level whatever the level so far
ApplyRule_overwrites(r, fires, alert, level, bypass, onlyFromLow) ==
    IF ~fires THEN r
    ELSE [risk_level |-> level,
          alerts     |-> Append(r.alerts, alert),
          bypass_ml  |-> r.bypass_ml \/ bypass,
          confidence |-> r.confidence]

\* mutant of ApplyRule: every rule that fires asks for the predictor to be bypassed
ApplyRule_always_bypasses(r, fires, alert, level, bypass, onlyFromLow) ==
    IF ~fires THEN r
    ELSE [risk_level |-> IF onlyFromLow /\ r.risk_level # "LOW" THEN r.risk_level ELSE level,
          alerts     |-> Append(r.alerts, alert),
          bypass_ml  |-> TRUE,
          confidence |-> r.confidence]

\* one rule of evaluate: r is the verdict so far
ApplyRule(r, fires, alert, level, bypass, onlyFromLow) ==
    IF ~fires THEN r
    ELSE [risk_level |-> IF onlyFromLow /\ r.risk_level # "LOW" THEN r.risk_level ELSE level,
          alerts     |-> Append(r.alerts, alert),
          bypass_ml  |-> r.bypass_ml \/ bypass,
          confidence |-> r.confidence]

\* mutant of evaluate: the hypertension rule compares with > instead of >=
evaluate_strict_pressure(v) ==
    LET r0 == [risk_level |-> "LOW", alerts |-> <<>>, bypass_ml |-> FALSE, confidence |-> 100]
        r1 == ApplyRule(r0, v.systolic_bp > HYPERTENSION_SBP_THRESHOLD
                             \/ v.diastolic_bp > HYPERTENSION_DBP_THRESHOLD,
                        "HYPERTENSIVE_CRISIS", "CRITICAL", TRUE, FALSE)
        r2 == ApplyRule(r1, v.blood_oxygen < HYPOXIA_THRESHOLD,
                        "HYPOXIA", "CRITICAL", TRUE, FALSE)
        r3 == ApplyRule(r2, v.heart_rate > TACHYCARDIA_THRESHOLD,
                        "TACHYCARDIA", "CRITICAL", TRUE, FALSE)
        r4 == ApplyRule(r3, v.blood_sugar < HYPOGLYCEMIA_THRESHOLD,
                        "HYPOGLYCEMIA", "CRITICAL", TRUE, FALSE)
        r5 == ApplyRule(r4, v.blood_sugar > HYPERGLYCEMIA_THRESHOLD,
                        "HYPERGLYCEMIA", "CRITICAL", TRUE, FALSE)
        r6 == ApplyRule(r5, v.body_temp > HYPERTHERMIA_THRESHOLD,
                        "HYPERTHERMIA", "HIGH", FALSE, TRUE)
        r7 == ApplyRule(r6, v.age >= ADVANCED_AGE_THRESHOLD,
                        "ADVANCED_MATERNAL_AGE", "MEDIUM", FALSE, TRUE)
        r8 == ApplyRule(r7, v.gestational_weeks > POST_TERM_THRESHOLD,
                        "POST_TERM_PREGNANCY", "MEDIUM", FALSE, TRUE)
    IN  r8

evaluate(v) ==
    LET r0 == [risk_level |-> "LOW", alerts |-> <<>>, bypass_ml |-> FALSE, confidence |-> 100]
        r1 == ApplyRule(r0, v.systolic_bp >= HYPERTENSION_SBP_THRESHOLD
                             \/ v.diastolic_bp >= HYPERTENSION_DBP_THRESHOLD,
                        "HYPERTENSIVE_CRISIS", "CRITICAL", TRUE, FALSE)
        r2 == ApplyRule(r1, v.blood_oxygen < HYPOXIA_THRESHOLD,
                        "HYPOXIA", "CRITICAL", TRUE, FALSE)
        r3 == ApplyRule(r2, v.heart_rate > TACHYCARDIA_THRESHOLD,
                        "TACHYCARDIA", "CRITICAL", TRUE, FALSE)
        r4 == ApplyRule(r3, v.blood_sugar < HYPOGLYCEMIA_THRESHOLD,
                        "HYPOGLYCEMIA", "CRITICAL", TRUE, FALSE)
        r5 == ApplyRule(r4, v.blood_sugar > HYPERGLYCEMIA_THRESHOLD,
                        "HYPERGLYCEMIA", "CRITICAL", TRUE, FALSE)
        r6 == ApplyRule(r5, v.body_temp > HYPERTHERMIA_THRESHOLD,
                        "HYPERTHERMIA", "HIGH", FALSE, TRUE)
        r7 == ApplyRule(r6, v.age >= ADVANCED_AGE_THRESHOLD,
                        "ADVANCED_MATERNAL_AGE", "MEDIUM", FALSE, TRUE)
        r8 == ApplyRule(r7, v.gestational_weeks > POST_TERM_THRESHOLD,
                        "POST_TERM_PREGNANCY", "MEDIUM", FALSE, TRUE)
    IN  r8

----------------------------------------------------------------------------
(* TriageStateMachine                                                      *)

FSMStates ==
    {"INGEST", "SANITY", "RULE_ENGINE", "ML_INFERENCE", "CONFIDENCE_CHECK",
     "SAVE_DB", "DONE", "REJECT", "HITL_HANDOFF"}

\* the states at which execute's loop stops
TerminalStates == {"DONE", "REJECT", "HITL_HANDOFF"}

\* FSMContext.confidence = None
NoneConfidence == -1

\* FSMContext(raw_vitals=raw, ...): optional objects are sequences of length <= 1
NewContext(raw) ==
    [raw_vitals            |-> raw,
     validated_vitals      |-> <<>>,
     rule_result           |-> <<>>,
     ml_result             |-> <<>>,
     final_risk_level      |-> "None",
     confidence            |-> NoneConfidence,
     alerts                |-> <<>>,
     current_state         |-> "INGEST",
     fsm_trace             |-> <<>>,
     is_honeypot_triggered |-> FALSE,
     bypass_ml             |-> FALSE,
     requires_hitl         |-> FALSE,
     error_message         |-> "None"]

\* what a state handler gives back to the loop: the context, or an exception
Returns(c) == [ctx |-> c, raised |-> FALSE, msg |-> "None"]
Raises(c, m) == [ctx |-> c, raised |-> TRUE, msg |-> m]

honeypot_fields ==
    {"admin_debug_mode", "__proto__", "__debug__", "is_admin", "debug_mode"}

\* mutant of state_ingest: the deny-list has lost its prototype-pollution entry
state_ingest_short_list(c) ==
    IF c.raw_vitals.extra \cap (honeypot_fields \ {"__proto__"}) # {}
    THEN Returns([c EXCEPT !.is_honeypot_triggered = TRUE,
                           !.error_message = "Invalid request structure",
                           !.current_state = "REJECT"])
    ELSE Returns([c EXCEPT !.current_state = "SANITY"])

state_ingest(c) ==
    IF c.raw_vitals.extra \cap honeypot_fields # {}
    THEN Returns([c EXCEPT !.is_honeypot_triggered = TRUE,
                           !.error_message = "Invalid request structure",
                           !.current_state = "REJECT"])
    ELSE Returns([c EXCEPT !.current_state = "SANITY"])

\* f"Validation failed: {str(e)}"
ValidationFailed(error) ==
    IF error = "ADVERSARIAL_INPUT"
    THEN "Validation failed: ADVERSARIAL_INPUT"
    ELSE "Validation failed: field constraint"

\* mutant of state_sanity: a failed validation is logged and the run goes on
state_sanity_goes_on(c) ==
    LET v == ClinicalVitals(c.raw_vitals)
    IN  IF v.ok
        THEN Returns([c EXCEPT !.validated_vitals = v.vitals, !.current_state = "RULE_ENGINE"])
        ELSE Returns([c EXCEPT !.validated_vitals = <<c.raw_vitals.vitals>>,
                               !.error_message = ValidationFailed(v.error),
                               !.current_state = "RULE_ENGINE"])

state_sanity(c) ==
    LET v == ClinicalVitals(c.raw_vitals)
    IN  IF v.ok
        THEN Returns([c EXCEPT !.validated_vitals = v.vitals, !.current_state = "RULE_ENGINE"])
        ELSE Returns([c EXCEPT !.error_message = ValidationFailed(v.error),
                               !.current_state = "REJECT"])

\* mutant of state_rule_engine: a bypass verdict is adopted but the run still goes
\* to ML_INFERENCE
state_rule_engine_no_skip(c, engineRaises) ==
    IF engineRaises
    THEN Raises(c, "rules engine failure")
    ELSE LET r == evaluate(c.validated_vitals[1])
             c1 == [c EXCEPT !.rule_result = <<r>>]
         IN  IF r.bypass_ml
             THEN Returns([c1 EXCEPT !.bypass_ml = TRUE,
                                     !.final_risk_level = r.risk_level,
                                     !.confidence = 100,
                                     !.alerts = r.alerts,
                                     !.current_state = "ML_INFERENCE"])
             ELSE Returns([c1 EXCEPT !.current_state = "ML_INFERENCE"])

\* engineRaises: the injected rules engine raises instead of returning a verdict
\* (the call is not inside a try block of the handler)
state_rule_engine(c, engineRaises) ==
    IF engineRaises
    THEN Raises(c, "rules engine failure")
    ELSE LET r == evaluate(c.validated_vitals[1])
             c1 == [c EXCEPT !.rule_result = <<r>>]
         IN  IF r.bypass_ml
             THEN Returns([c1 EXCEPT !.bypass_ml = TRUE,
                                     !.final_risk_level = r.risk_level,
                                     !.confidence = 100,
                                     !.alerts = r.alerts,
                                     !.current_state = "CONFIDENCE_CHECK"])
             ELSE Returns([c1 EXCEPT !.current_state = "ML_INFERENCE"])

\* _state_ml_inference, the try branch: the breaker returned the predictor's result
ml_inference_success(c, ml) ==
    Returns([c EXCEPT !.ml_result = <<ml>>,
                      !.final_risk_level = ml.risk_level,
                      !.confidence = ml.confidence,
                      !.alerts = ml.alerts,
                      !.current_state = "CONFIDENCE_CHECK"])

\* mutant of ml_inference_fallback: the failure of the predictor ends the run
ml_inference_fallback_rejects(c) ==
    Returns([c EXCEPT !.error_message = "ML inference failed",
                      !.current_state = "REJECT"])

\* mutant of ml_inference_fallback: the rule verdict is taken with its own confidence
ml_inference_fallback_confident(c) ==
    Returns([c EXCEPT !.final_risk_level = c.rule_result[1].risk_level,
                      !.confidence = 100,
                      !.alerts = <<"ML model unavailable - using rule-based assessment">>,
                      !.current_state = "CONFIDENCE_CHECK"])

\* _state_ml_inference, the except branch: breaker.call raised (CircuitBreakerOpen or
\* the predictor's exception)
ml_inference_fallback(c) ==
    Returns([c EXCEPT !.final_risk_level = c.rule_result[1].risk_level,
                      !.confidence = 50,
                      !.alerts = <<"ML model unavailable - using rule-based assessment">>,
                      !.current_state = "CONFIDENCE_CHECK"])

\* mutant of state_confidence_check: the comparison is <= instead of <
state_confidence_check_inclusive(c, threshold) ==
    IF ~c.bypass_ml /\ c.confidence <= threshold
    THEN Returns([c EXCEPT !.requires_hitl = TRUE, !.current_state = "HITL_HANDOFF"])
    ELSE Returns([c EXCEPT !.current_state = "SAVE_DB"])

\* mutant of state_confidence_check: a confident verdict is taken as saved already
state_confidence_check_skips_save(c, threshold) ==
    IF ~c.bypass_ml /\ c.confidence < threshold
    THEN Returns([c EXCEPT !.requires_hitl = TRUE, !.current_state = "HITL_HANDOFF"])
    ELSE Returns([c EXCEPT !.current_state = "DONE"])

state_confidence_check(c, threshold) ==
    IF ~c.bypass_ml /\ c.confidence < threshold
    THEN Returns([c EXCEPT !.requires_hitl = TRUE, !.current_state = "HITL_HANDOFF"])
    ELSE Returns([c EXCEPT !.current_state = "SAVE_DB"])

state_save_db(c) ==
    Returns([c EXCEPT !.current_state = "DONE"])

\* FSMTransition, without its timestamp and duration; error is metadata["error"]
Transition(from, to, error) ==
    [from_state |-> from, to_state |-> to, error |-> error]

\* after one pass of the loop the run is still in it, or execute returns
LoopExit(c) ==
    IF c.current_state \in TerminalStates THEN "returned" ELSE "running"

\* mutant of execute_pass: the transition's from_state is read after the handler ran
execute_pass_late_from(c, out) ==
    IF out.raised
    THEN LET c1 == [c EXCEPT !.error_message = out.msg,
                             !.current_state = "REJECT",
                             !.fsm_trace = Append(@, Transition("REJECT", "REJECT", out.msg))]
         IN  [ctx |-> c1, pc |-> LoopExit(c1)]
    ELSE LET c1 == [out.ctx EXCEPT !.fsm_trace =
                        Append(@, Transition(out.ctx.current_state, out.ctx.current_state,
                                             out.ctx.error_message))]
         IN  [ctx |-> c1, pc |-> LoopExit(c1)]

\* mutant of execute_pass: the loop has no except clause, a handler's exception
\* leaves execute
execute_pass_no_except(c, out) ==
    IF out.raised
    THEN [ctx |-> c, pc |-> "escaped"]
    ELSE LET c1 == [out.ctx EXCEPT !.fsm_trace =
                        Append(@, Transition(c.current_state, out.ctx.current_state,
                                             out.ctx.error_message))]
         IN  [ctx |-> c1, pc |-> LoopExit(c1)]

\* mutant of execute_pass: the except clause records the failure but leaves the
\* state as it was
execute_pass_no_reject(c, out) ==
    IF out.raised
    THEN LET c1 == [c EXCEPT !.error_message = out.msg,
                             !.fsm_trace = Append(@, Transition(c.current_state, "REJECT", out.msg))]
         IN  [ctx |-> c1, pc |-> LoopExit(c1)]
    ELSE LET c1 == [out.ctx EXCEPT !.fsm_trace =
                        Append(@, Transition(c.current_state, out.ctx.current_state,
                                             out.ctx.error_message))]
         IN  [ctx |-> c1, pc |-> LoopExit(c1)]

\* one pass of execute's loop around a handler that gave `out` for context c:
\* the transition is recorded, a raised exception becomes a transition to REJECT
execute_pass(c, out) ==
    IF out.raised
    THEN LET c1 == [c EXCEPT !.error_message = out.msg,
                             !.current_state = "REJECT",
                             !.fsm_trace = Append(@, Transition(c.current_state, "REJECT", out.msg))]
         IN  [ctx |-> c1, pc |-> LoopExit(c1)]
    ELSE LET c1 == [out.ctx EXCEPT !.fsm_trace =
                        Append(@, Transition(c.current_state, out.ctx.current_state,
                                             out.ctx.error_message))]
         IN  [ctx |-> c1, pc |-> LoopExit(c1)]

----------------------------------------------------------------------------
(* FSMTriageRepository: the triage_decisions collection.  A stored document *)
(* is the decision_data of its submission, its _id, and the review fields  *)
(* (absent until a review sets them: reviewed_by 0, review_notes "None").  *)
(* Of its timestamps only created_at is kept.  A client_sync_uuid is a     *)
(* number in 1..NumTokens.                                                 *)

NumTokens == 2
IdempotencyTtl == 1
MaxVersion == 2

Tokens == 1..NumTokens

\* decision_data, as built for a HITL_HANDOFF or a DONE context at time t
decision_data(c, client_sync_uuid, t) ==
    [client_sync_uuid      |-> client_sync_uuid,
     input_vitals          |-> c.raw_vitals,
     fsm_state             |-> c.current_state,
     final_risk_level      |-> c.final_risk_level,
     confidence            |-> c.confidence,
     alerts                |-> c.alerts,
     fsm_trace             |-> c.fsm_trace,
     is_honeypot_triggered |-> c.is_honeypot_triggered,
     bypassed_ml           |-> c.bypass_ml,
     requires_hitl         |-> (c.current_state = "HITL_HANDOFF"),
     review_status         |-> "PENDING",
     version_id            |-> 1,
     created_at            |-> t]

\* the document the collection holds for decision data d inserted under _id id
Stored(d, id) ==
    [_id |-> id, reviewed_by |-> 0, review_notes |-> "None"] @@ d

\* mutant of insert_one: the collection has no unique index on client_sync_uuid
insert_one_no_index(coll, d) ==
    LET id == Cardinality(coll) + 1
    IN  [coll |-> coll \cup {Stored(d, id)}, raised |-> FALSE, inserted_id |-> id]

\* collection.insert_one under the unique index on client_sync_uuid that
\* create_indexes sets up at startup: a second document of a token is refused
\* with DuplicateKeyError
insert_one(coll, d) ==
    IF \E e \in coll : e.client_sync_uuid = d.client_sync_uuid
    THEN [coll |-> coll, raised |-> TRUE, inserted_id |-> 0]
    ELSE LET id == Cardinality(coll) + 1
         IN  [coll |-> coll \cup {Stored(d, id)}, raised |-> FALSE, inserted_id |-> id]

\* save_triage_decision: the insert into triage_decisions (the copy written to the
\* legacy triage_logs collection is not part of the model)
save_triage_decision(coll, d) ==
    insert_one(coll, d)

\* check_idempotency at time t: the document of the token created within the window,
\* or none
check_idempotency(coll, client_sync_uuid, t) ==
    LET hits == {d \in coll : /\ d.client_sync_uuid = client_sync_uuid
                              /\ d.created_at >= t - IdempotencyTtl}
    IN  IF hits = {} THEN <<>> ELSE <<CHOOSE d \in hits : TRUE>>

\* the document update_one writes for a match d
Resolved(d, doctor_id, final_risk_level, notes, expected_version) ==
    [d EXCEPT !.review_status = "RESOLVED",
              !.final_risk_level = final_risk_level,
              !.reviewed_by = doctor_id,
              !.review_notes = notes,
              !.version_id = expected_version + 1]

\* the version_id case_id is stored with, 0 when no document has that _id
StoredVersion(coll, case_id) ==
    IF \E d \in coll : d._id = case_id
    THEN (CHOOSE d \in coll : d._id = case_id).version_id
    ELSE 0

\* mutant of resolve_hitl_case: the filter of update_one has lost its version_id
resolve_hitl_case_no_lock(coll, case_id, doctor_id, final_risk_level, notes, expected_version) ==
    LET match == {d \in coll : d._id = case_id}
    IN  IF match = {}
        THEN [coll |-> coll, result |-> FALSE]
        ELSE LET d == CHOOSE d \in match : TRUE
             IN  [coll |-> (coll \ {d}) \cup
                             {Resolved(d, doctor_id, final_risk_level, notes, expected_version)},
                  result |-> TRUE]

\* mutant of resolve_hitl_case: the filter also asks for a case that awaits review
resolve_hitl_case_pending_only(coll, case_id, doctor_id, final_risk_level, notes, expected_version) ==
    LET match == {d \in coll : /\ d._id = case_id /\ d.version_id = expected_version
                                /\ d.requires_hitl /\ d.review_status = "PENDING"}
    IN  IF match = {}
        THEN [coll |-> coll, result |-> FALSE]
        ELSE LET d == CHOOSE d \in match : TRUE
             IN  [coll |-> (coll \ {d}) \cup
                             {Resolved(d, doctor_id, final_risk_level, notes, expected_version)},
                  result |-> TRUE]

\* mutant of resolve_hitl_case: the filter accepts any stored version from the
\* expected one on ($gte)
resolve_hitl_case_stale_ok(coll, case_id, doctor_id, final_risk_level, notes, expected_version) ==
    LET match == {d \in coll : d._id = case_id /\ d.version_id >= expected_version}
    IN  IF match = {}
        THEN [coll |-> coll, result |-> FALSE]
        ELSE LET d == CHOOSE d \in match : TRUE
             IN  [coll |-> (coll \ {d}) \cup
                             {Resolved(d, doctor_id, final_risk_level, notes, expected_version)},
                  result |-> TRUE]

\* mutant of resolve_hitl_case: update_data has lost its version_id
resolve_hitl_case_no_bump(coll, case_id, doctor_id, final_risk_level, notes, expected_version) ==
    LET match == {d \in coll : d._id = case_id /\ d.version_id = expected_version}
    IN  IF match = {}
        THEN [coll |-> coll, result |-> FALSE]
        ELSE LET d == CHOOSE d \in match : TRUE
             IN  [coll |-> (coll \ {d}) \cup
                             {[Resolved(d, doctor_id, final_risk_level, notes, expected_version)
                                  EXCEPT !.version_id = d.version_id]},
                  result |-> TRUE]

\* resolve_hitl_case: one update_one filtered on _id and version_id, applied by the
\* database as a whole.  The result is modified_count > 0
resolve_hitl_case(coll, case_id, doctor_id, final_risk_level, notes, expected_version) ==
    LET match == {d \in coll : d._id = case_id /\ d.version_id = expected_version}
    IN  IF match = {}
        THEN [coll |-> coll, result |-> FALSE]
        ELSE LET d == CHOOSE d \in match : TRUE
             IN  [coll |-> (coll \ {d}) \cup
                             {Resolved(d, doctor_id, final_risk_level, notes, expected_version)},
                  result |-> TRUE]

\* the documents get_hitl_queue's query selects
PendingReview(coll) ==
    {d \in coll : d.requires_hitl /\ d.review_status = "PENDING"}

\* mutant of get_hitl_queue: the query has lost its requires_hitl condition
get_hitl_queue_any_pending(coll, limit) ==
    LET pending == {d \in coll : d.review_status = "PENDING"}
        n == Min(limit, Cardinality(pending))
    IN  {q \in [1..n -> pending] :
            /\ \A i, j \in 1..n : i < j => (q[i] # q[j] /\ q[i].created_at >= q[j].created_at)
            /\ \A d \in pending \ {q[i] : i \in 1..n} :
                 \A i \in 1..n : q[i].created_at >= d.created_at}

\* get_hitl_queue with a limit of at least 1: the lists the query can give, the
\* selected documents by created_at descending, cut at the limit.  Documents of one
\* created_at come in either order
get_hitl_queue(coll, limit) ==
    LET pending == PendingReview(coll)
        n == Min(limit, Cardinality(pending))
    IN  {q \in [1..n -> pending] :
            /\ \A i, j \in 1..n : i < j => (q[i] # q[j] /\ q[i].created_at >= q[j].created_at)
            /\ \A d \in pending \ {q[i] : i \in 1..n} :
                 \A i \in 1..n : q[i].created_at >= d.created_at}

----------------------------------------------------------------------------
(* The doctor's endpoints: POST /doctor/hitl-resolve                       *)

\* the decisions the endpoint accepts
valid_decisions == {"CONFIRMED", "ESCALATED", "DOWNGRADED", "RESOLVED"}

\* the parameters of FSMTriageRepository.resolve_hitl_case, and those without default
ResolveParams == {"case_id", "doctor_id", "final_risk_level", "notes", "expected_version"}
ResolveRequired == {"case_id", "doctor_id", "final_risk_level"}

\* the keyword arguments the endpoint calls the repository method with
ResolveKwargs == {"case_id", "doctor_id", "decision", "notes", "expected_version"}

\* a call with keyword arguments binds when every keyword is a parameter and every
\* parameter without default is given; otherwise the call raises TypeError
Binds(kwargs, params, required) ==
    kwargs \subseteq params /\ required \subseteq kwargs

\* the endpoint on collection coll: the collection afterwards and the HTTP status.
\* 400 for a decision outside valid_decisions; the TypeError of a call that does not
\* bind is not handled and is answered 500; 409 when the repository returns False
hitl_resolve(coll, case_id, doctor_id, decision, notes, expected_version) ==
    IF decision \notin valid_decisions
    THEN [coll |-> coll, status |-> 400]
    ELSE IF ~Binds(ResolveKwargs, ResolveParams, ResolveRequired)
         THEN [coll |-> coll, status |-> 500]
         ELSE LET r == resolve_hitl_case(coll, case_id, doctor_id, decision, notes,
                                         expected_version)
              IN  [coll |-> r.coll, status |-> IF r.result THEN 200 ELSE 409]

----------------------------------------------------------------------------
(* submit_triage                                                           *)

\* the answers of submit_triage: a TriageResponse, or an HTTPException
NoAnswer ==
    [status |-> 0, replay |-> FALSE, assessment_id |-> 0, risk_level |-> "None",
     confidence |-> NoneConfidence, alerts |-> <<>>, requires_hitl |-> FALSE]

\* the cached response, with the X-Idempotent-Replay header set
ReplayResponse(cached) ==
    [status |-> 200, replay |-> TRUE, assessment_id |-> cached._id,
     risk_level |-> cached.final_risk_level, confidence |-> cached.confidence,
     alerts |-> cached.alerts, requires_hitl |-> cached.requires_hitl]

\* HTTPException(500, "Internal server error during assessment")
InternalServerError == [NoAnswer EXCEPT !.status = 500]

\* the keyword arguments submit_triage constructs its CircuitBreaker with
BreakerKwargs == {"failure_threshold", "timeout_seconds"}

\* the call CircuitBreaker(**kwargs): __init__ takes no argument besides self, any
\* keyword argument raises TypeError
CircuitBreaker(kwargs) ==
    IF kwargs = {}
    THEN [raised |-> FALSE, breaker |-> <<NewBreaker>>]
    ELSE [raised |-> TRUE, breaker |-> <<>>]

\* the branches on context.current_state after fsm.execute returned, at time t on
\* collection coll: the collection afterwards and the answer
handle_terminal_state(c, client_sync_uuid, t, coll) ==
    IF c.current_state = "REJECT"
    THEN [coll |-> coll,
          response |-> [status |-> 400,
                        detail |-> IF c.error_message # "None" THEN c.error_message
                                   ELSE "Request rejected by validation"]]
    ELSE IF c.current_state \in {"HITL_HANDOFF", "DONE"}
         THEN LET ins == save_triage_decision(coll, decision_data(c, client_sync_uuid, t))
              IN  IF ins.raised
                  THEN [coll |-> coll,
                        response |-> [status |-> 500,
                                      detail |-> "Internal server error during assessment"]]
                  ELSE [coll |-> ins.coll,
                        response |-> [status |-> 200, detail |-> c.current_state]]
         ELSE [coll |-> coll,
               response |-> [status |-> 500, detail |-> "Unexpected FSM state"]]

\* execute as a function of what its collaborators give: the rules engine raises or
\* not, the breaker returns the predictor's result <<ml>> or raises (<<>>)
RECURSIVE execute(_, _, _, _)
execute(c, threshold, engineRaises, ml) ==
    IF c.current_state \in TerminalStates
    THEN c
    ELSE LET s == c.current_state
             out == CASE s = "INGEST" -> state_ingest(c)
                      [] s = "SANITY" -> state_sanity(c)
                      [] s = "RULE_ENGINE" -> state_rule_engine(c, engineRaises)
                      [] s = "ML_INFERENCE" ->
                            IF ml = <<>> THEN ml_inference_fallback(c)
                            ELSE ml_inference_success(c, ml[1])
                      [] s = "CONFIDENCE_CHECK" -> state_confidence_check(c, threshold)
                      [] s = "SAVE_DB" -> state_save_db(c)
         IN  execute(execute_pass(c, out).ctx, threshold, engineRaises, ml)

----------------------------------------------------------------------------
(* Inputs                                                                  *)

\* the example of ClinicalVitals' schema
NormalVitals ==
    [age |-> 28, systolic_bp |-> 120, diastolic_bp |-> 80, heart_rate |-> 75,
     body_temp |-> 370, blood_oxygen |-> 980, blood_sugar |-> 55, gestational_weeks |-> 24]

\* the example of TriageRequest's schema: a hypertensive crisis
CrisisVitals ==
    [age |-> 28, systolic_bp |-> 145, diastolic_bp |-> 95, heart_rate |-> 88,
     body_temp |-> 372, blood_oxygen |-> 970, blood_sugar |-> 65, gestational_weeks |-> 28]

\* a raw input without symptoms text (symptoms None), and one with a text of n characters
Raw(v, extra, bad) == [vitals |-> v, extra |-> extra, bad |-> bad, symptoms |-> -1]
WithSymptoms(raw, n) == [raw EXCEPT !.symptoms = n]

RawInputs ==
    {Raw(NormalVitals, {}, {}),
     Raw(CrisisVitals, {}, {}),
     Raw([NormalVitals EXCEPT !.body_temp = 390], {}, {}),
     Raw([NormalVitals EXCEPT !.age = 35], {"comment"}, {}),
     Raw([NormalVitals EXCEPT !.systolic_bp = 80], {}, {}),
     Raw([NormalVitals EXCEPT !.age = 61], {}, {}),
     Raw(NormalVitals, {}, {"heart_rate"}),
     Raw(NormalVitals, {"$where"}, {}),
     Raw([NormalVitals EXCEPT !.age = 61], {"__proto__"}, {})}
    \cup {Raw(NormalVitals, {f}, {}) : f \in honeypot_fields}

\* the values at and next to the ends of a field's range
EdgeValues(f) ==
    {FieldRange[f][1] - 1, FieldRange[f][1], FieldRange[f][2], FieldRange[f][2] + 1}

\* blood pressures in, at the ends of and out of their ranges, in either order
EdgePressures ==
    {[NormalVitals EXCEPT !.systolic_bp = sbp, !.diastolic_bp = dbp] :
        sbp \in {69, 70, 71, 140, 141, 230, 231}, dbp \in {39, 40, 80, 140, 141}}

\* the vitals of test_boundary_values: every field at its lowest, at its highest
LowestVitals ==
    [age |-> 15, systolic_bp |-> 71, diastolic_bp |-> 40, heart_rate |-> 45,
     body_temp |-> 340, blood_oxygen |-> 700, blood_sugar |-> 5, gestational_weeks |-> 1]
HighestVitals ==
    [age |-> 60, systolic_bp |-> 230, diastolic_bp |-> 140, heart_rate |-> 180,
     body_temp |-> 420, blood_oxygen |-> 1000, blood_sugar |-> 300, gestational_weeks |-> 42]

\* inputs to the validator: each blood pressure alone, with one other field at an
\* edge value, with one field missing or of the wrong type, and inputs with a
\* symptoms text at and over its greatest length
SanityInputs ==
    {Raw(v, {}, {}) : v \in EdgePressures \cup {LowestVitals, HighestVitals}}
    \cup UNION {{Raw([v EXCEPT ![f] = x], {}, {}) : x \in EdgeValues(f), v \in EdgePressures} :
                    f \in VitalFields \ {"systolic_bp", "diastolic_bp"}}
    \cup {Raw(v, {}, {f}) : v \in EdgePressures, f \in VitalFields}
    \cup {WithSymptoms(Raw(v, {}, {}), n) :
             v \in {NormalVitals, HighestVitals, [NormalVitals EXCEPT !.systolic_bp = 70]},
             n \in {0, 500, 501}}

\* inputs to the rules engine: every field at its rule's threshold and next to it
RuleInputs ==
    {Raw([age |-> a, systolic_bp |-> sbp, diastolic_bp |-> dbp, heart_rate |-> hr,
          body_temp |-> bt, blood_oxygen |-> bo, blood_sugar |-> bs,
          gestational_weeks |-> gw], {}, {}) :
        a \in {34, 35}, sbp \in {139, 140}, dbp \in {89, 90}, hr \in {120, 121},
        bt \in {385, 386}, bo \in {939, 940}, bs \in {29, 30, 110, 111}, gw \in {40, 41}}

\* field names of the three kinds of marker, and a harmless one
MarkerFields == {"is_admin", "__proto__", "$where"}
MarkerInputs ==
    {Raw(NormalVitals, extra, {}) : extra \in (SUBSET (MarkerFields \cup {"comment"})) \ {{}}}

IntakeInputs == SanityInputs \cup RuleInputs \cup MarkerInputs

\* what the predictor may return, and the thresholds the machine may be configured with
PredictorRisks == {"LOW", "HIGH"}
PredictorConfidences == {50, 65, 80}
PredictorResults ==
    {[risk_level |-> r, confidence |-> k, alerts |-> <<>>] :
        r \in PredictorRisks, k \in PredictorConfidences}
HitlThresholds == {50, 65, 100}

----------------------------------------------------------------------------
(* Direct callers of the breaker (as the breaker's tests call it, and as   *)
(* other tasks of the process that share the breaker).                     *)
(* call() has one suspension point, the await of func: entering the call   *)
(* and completing it are two atomic steps.                                 *)

BreakerInit ==
    /\ cb = NewBreaker
    /\ now = 0
    /\ caller_pc = [c \in Callers |-> "idle"]
    /\ caller_result = [c \in Callers |-> "none"]
    /\ streak = 0
    /\ probes = {}
    /\ probe_successes = 0
    /\ concurrent = {}

\* caller c enters call(func)
CallBegin(c) ==
    /\ caller_pc[c] = "idle"
    /\ LET e == call_enter(cb, now)
       IN  /\ cb' = e.cb
           /\ IF e.invoke
              THEN /\ caller_pc' = [caller_pc EXCEPT ![c] = "invoked"]
                   /\ caller_result' = caller_result
              ELSE /\ caller_pc' = [caller_pc EXCEPT ![c] = "done"]
                   /\ caller_result' = [caller_result EXCEPT ![c] = "CircuitBreakerOpen"]
           /\ probes' = ProbesAfterEnter(cb, e, c, probes)
           /\ probe_successes' = ProbeSuccessesAfterEnter(cb, e, probe_successes)
           /\ concurrent' = ConcurrentAfterEnter(
                  e, c, {d \in Callers \ {c} : caller_pc[d] = "invoked"}, concurrent)
    /\ UNCHANGED <<now, streak>>
    /\ UNCHANGED fsmVars
    /\ UNCHANGED storeVars

\* func returned: _on_success, the result is returned
CallSucceed(c) ==
    /\ caller_pc[c] = "invoked"
    /\ cb' = on_success(cb)
    /\ caller_pc' = [caller_pc EXCEPT ![c] = "done"]
    /\ caller_result' = [caller_result EXCEPT ![c] = "returned"]
    /\ streak' = StreakAfter(streak, FALSE)
    /\ probes' = ProbesAfterCall(cb', c, probes)
    /\ probe_successes' = ProbeSuccessesAfterSuccess(cb, c, probes, probe_successes)
    /\ UNCHANGED <<now, concurrent>>
    /\ UNCHANGED fsmVars
    /\ UNCHANGED storeVars

\* func raised: _on_failure, the exception is re-raised
CallFail(c) ==
    /\ caller_pc[c] = "invoked"
    /\ cb' = on_failure(cb, now)
    /\ caller_pc' = [caller_pc EXCEPT ![c] = "done"]
    /\ caller_result' = [caller_result EXCEPT ![c] = "raised"]
    /\ streak' = StreakAfter(streak, TRUE)
    /\ probes' = ProbesAfterCall(cb', c, probes)
    /\ UNCHANGED <<now, probe_successes, concurrent>>
    /\ UNCHANGED fsmVars
    /\ UNCHANGED storeVars

\* the caller takes the outcome and is ready to call again
CallReturn(c) ==
    /\ caller_pc[c] = "done"
    /\ caller_pc' = [caller_pc EXCEPT ![c] = "idle"]
    /\ caller_result' = [caller_result EXCEPT ![c] = "none"]
    /\ concurrent' = concurrent \ {c}
    /\ UNCHANGED <<cb, now, streak, probes, probe_successes>>
    /\ UNCHANGED fsmVars
    /\ UNCHANGED storeVars

\* the clock advances
Tick ==
    /\ now < MaxTime
    /\ now' = now + 1
    /\ UNCHANGED <<cb, caller_pc, caller_result, streak, probes, probe_successes, concurrent>>
    /\ UNCHANGED fsmVars
    /\ UNCHANGED storeVars

----------------------------------------------------------------------------
(* One run of TriageStateMachine.execute, one action per state handler     *)
(* together with the loop's bookkeeping around it.                         *)

\* the loop takes the handler's outcome
Pass(out) ==
    LET p == execute_pass(ctx, out)
    IN  ctx' = p.ctx /\ pc' = p.pc

RunIngest ==
    /\ pc = "running" /\ ctx.current_state = "INGEST"
    /\ Pass(state_ingest(ctx))
    /\ UNCHANGED <<hitl_threshold, predictor_call, decisions, response>>
    /\ UNCHANGED breakerVars
    /\ UNCHANGED storeVars

RunSanity ==
    /\ pc = "running" /\ ctx.current_state = "SANITY"
    /\ Pass(state_sanity(ctx))
    /\ UNCHANGED <<hitl_threshold, predictor_call, decisions, response>>
    /\ UNCHANGED breakerVars
    /\ UNCHANGED storeVars

RunRuleEngine ==
    /\ pc = "running" /\ ctx.current_state = "RULE_ENGINE"
    /\ \E engineRaises \in BOOLEAN : Pass(state_rule_engine(ctx, engineRaises))
    /\ UNCHANGED <<hitl_threshold, predictor_call, decisions, response>>
    /\ UNCHANGED breakerVars
    /\ UNCHANGED storeVars

\* _state_ml_inference up to the await inside breaker.call: the predictor is invoked,
\* or the breaker refuses and the handler falls back at once
RunMLEnter ==
    /\ pc = "running" /\ ctx.current_state = "ML_INFERENCE"
    /\ LET e == call_enter(cb, now)
       IN  /\ cb' = e.cb
           /\ IF e.invoke
              THEN /\ pc' = "awaiting"
                   /\ predictor_call' = "in_flight"
                   /\ ctx' = ctx
              ELSE /\ predictor_call' = "CircuitBreakerOpen"
                   /\ Pass(ml_inference_fallback(ctx))
           /\ probes' = ProbesAfterEnter(cb, e, 0, probes)
           /\ probe_successes' = ProbeSuccessesAfterEnter(cb, e, probe_successes)
    /\ UNCHANGED <<hitl_threshold, decisions, response>>
    /\ UNCHANGED <<now, caller_pc, caller_result, streak, concurrent>>
    /\ UNCHANGED storeVars

\* the predictor returned ml
RunMLSucceed ==
    /\ pc = "awaiting"
    /\ \E ml \in PredictorResults : Pass(ml_inference_success(ctx, ml))
    /\ cb' = on_success(cb)
    /\ streak' = StreakAfter(streak, FALSE)
    /\ probes' = ProbesAfterCall(cb', 0, probes)
    /\ probe_successes' = ProbeSuccessesAfterSuccess(cb, 0, probes, probe_successes)
    /\ predictor_call' = "returned"
    /\ UNCHANGED <<hitl_threshold, decisions, response>>
    /\ UNCHANGED <<now, caller_pc, caller_result, concurrent>>
    /\ UNCHANGED storeVars

\* the predictor raised
RunMLFail ==
    /\ pc = "awaiting"
    /\ Pass(ml_inference_fallback(ctx))
    /\ cb' = on_failure(cb, now)
    /\ streak' = StreakAfter(streak, TRUE)
    /\ probes' = ProbesAfterCall(cb', 0, probes)
    /\ predictor_call' = "raised"
    /\ UNCHANGED <<hitl_threshold, decisions, response>>
    /\ UNCHANGED <<now, caller_pc, caller_result, probe_successes, concurrent>>
    /\ UNCHANGED storeVars

RunConfidenceCheck ==
    /\ pc = "running" /\ ctx.current_state = "CONFIDENCE_CHECK"
    /\ Pass(state_confidence_check(ctx, hitl_threshold))
    /\ UNCHANGED <<hitl_threshold, predictor_call, decisions, response>>
    /\ UNCHANGED breakerVars
    /\ UNCHANGED storeVars

RunSaveDb ==
    /\ pc = "running" /\ ctx.current_state = "SAVE_DB"
    /\ Pass(state_save_db(ctx))
    /\ UNCHANGED <<hitl_threshold, predictor_call, decisions, response>>
    /\ UNCHANGED breakerVars
    /\ UNCHANGED storeVars

\* submit_triage after execute returned: REJECT is answered with 400, a HITL_HANDOFF
\* or DONE context is saved and answered
HandleTerminalState ==
    /\ pc = "returned"
    /\ LET h == handle_terminal_state(ctx, 1, now, decisions)
       IN  /\ decisions' = h.coll
           /\ response' = <<h.response>>
    /\ pc' = "responded"
    /\ UNCHANGED <<hitl_threshold, ctx, predictor_call>>
    /\ UNCHANGED breakerVars
    /\ UNCHANGED storeVars

----------------------------------------------------------------------------
(* Submissions to POST /triage, and direct clients of the repository (as   *)
(* tests and other handlers call its methods).  Every await on the         *)
(* database is a suspension point: the query or write is one atomic step   *)
(* of the database, separate from the steps before it.                     *)

NumSubmissions == 2
NumClients == 2
MaxStoreTime == 2

Submissions == 1..NumSubmissions
Clients == 1..NumClients

\* what a reviewer may set as the final risk level
ReviewRisks == {"LOW", "CRITICAL"}

\* the terminal contexts whose decision data the direct clients save: a run of the
\* schema's example vitals handed to review on the fallback verdict, and one
\* completed on the predictor's verdict
SavedContexts ==
    {execute(NewContext(Raw(NormalVitals, {}, {})), 65, FALSE, ml) :
        ml \in {<<>>, <<[risk_level |-> "LOW", confidence |-> 80, alerts |-> <<>>]>>}}

IdleSubmission ==
    [pc |-> "idle", client_sync_uuid |-> 0, at |-> -1, prior |-> {},
     machine |-> "none", response |-> NoAnswer]

\* the decisions a reviewer may take, one of them not among the valid ones
ReviewDecisions == {"CONFIRMED", "RESOLVED", "APPROVED"}

\* the limits the queue is asked with: a short one, and the endpoint's default
QueueLimits == {1, 50}

IdleClient ==
    [pc |-> "idle", op |-> "none", doc |-> <<>>, case_id |-> 0,
     final_risk_level |-> "None", expected_version |-> 0,
     result |-> "none", raced |-> {},
     decision |-> "None", status |-> 0, limit |-> 0, cases |-> <<>>, seen |-> -1]

StoreInit ==
    /\ sub = [s \in Submissions |-> IdleSubmission]
    /\ client = [k \in Clients |-> IdleClient]
    /\ accepted = [i \in Tokens |-> 0]

\* submit_triage up to the answer of check_idempotency: a hit is answered with the
\* cached decision, a miss goes on to the FSM execution block
SubmitCheck(s) ==
    /\ sub[s].pc = "idle"
    /\ \E token \in Tokens :
         LET cached == check_idempotency(decisions, token, now)
             s1 == [sub[s] EXCEPT !.client_sync_uuid = token, !.at = now,
                                  !.prior = {r \in Submissions : sub[r].pc = "answered"}]
         IN  sub' = [sub EXCEPT ![s] =
                        IF cached # <<>>
                        THEN [s1 EXCEPT !.pc = "answered",
                                        !.response = ReplayResponse(cached[1])]
                        ELSE [s1 EXCEPT !.pc = "building"]]
    /\ UNCHANGED <<client, accepted>>
    /\ UNCHANGED fsmVars
    /\ UNCHANGED breakerVars

\* the FSM execution block up to fsm.execute: the context, the rules engine and the
\* predictor are constructed, then the breaker; its constructor's exception is caught by
\* the block's except Exception and answered 500
SubmitBuild(s) ==
    /\ sub[s].pc = "building"
    /\ LET b == CircuitBreaker(BreakerKwargs)
       IN  sub' = [sub EXCEPT ![s] =
                      IF b.raised
                      THEN [@ EXCEPT !.pc = "answered", !.machine = "TypeError",
                                     !.response = InternalServerError]
                      ELSE [@ EXCEPT !.pc = "executing", !.machine = "own breaker"]]
    /\ UNCHANGED <<client, accepted>>
    /\ UNCHANGED fsmVars
    /\ UNCHANGED breakerVars

\* a client builds decision data at the current time and calls save_triage_decision
SaveCall(k) ==
    /\ client[k].pc = "idle"
    /\ \E token \in Tokens, c \in SavedContexts :
         client' = [client EXCEPT ![k] =
                       [IdleClient EXCEPT !.pc = "saving", !.op = "save",
                                          !.doc = <<decision_data(c, token, now)>>]]
    /\ UNCHANGED <<sub, accepted>>
    /\ UNCHANGED fsmVars
    /\ UNCHANGED breakerVars

\* the database performs the insert; the client gets the new _id or DuplicateKeyError
SaveInsert(k) ==
    /\ client[k].pc = "saving"
    /\ LET ins == save_triage_decision(decisions, client[k].doc[1])
       IN  /\ decisions' = ins.coll
           /\ client' = [client EXCEPT ![k] =
                           [@ EXCEPT !.pc = "done", !.case_id = ins.inserted_id,
                                     !.result = IF ins.raised THEN "DuplicateKeyError"
                                                ELSE "saved"]]
    /\ UNCHANGED <<sub, accepted>>
    /\ UNCHANGED <<hitl_threshold, ctx, pc, predictor_call, response>>
    /\ UNCHANGED breakerVars

\* client k, as doctor k, calls resolve_hitl_case
ResolveCall(k) ==
    /\ client[k].pc = "idle"
    /\ \E case_id \in Tokens, risk \in ReviewRisks, v \in 1..MaxVersion :
         client' = [client EXCEPT ![k] =
                       [IdleClient EXCEPT !.pc = "resolving", !.op = "resolve",
                                          !.case_id = case_id, !.final_risk_level = risk,
                                          !.expected_version = v]]
    /\ UNCHANGED <<sub, accepted>>
    /\ UNCHANGED fsmVars
    /\ UNCHANGED breakerVars

\* the database performs the update_one; the client gets True or False
ResolveUpdate(k) ==
    /\ client[k].pc = "resolving"
    /\ LET a == client[k]
           r == resolve_hitl_case(decisions, a.case_id, k, a.final_risk_level, "reviewed",
                                  a.expected_version)
       IN  /\ decisions' = r.coll
           /\ client' = [client EXCEPT ![k] =
                           [@ EXCEPT !.pc = "done",
                                     !.result = IF r.result THEN "True" ELSE "False",
                                     !.seen = StoredVersion(decisions, a.case_id),
                                     !.raced = {j \in Clients \ {k} :
                                                  /\ client[j].pc = "resolving"
                                                  /\ client[j].case_id = a.case_id
                                                  /\ client[j].expected_version =
                                                       a.expected_version}]]
           /\ accepted' = IF r.result
                          THEN [accepted EXCEPT ![a.case_id] = @ + 1]
                          ELSE accepted
    /\ UNCHANGED sub
    /\ UNCHANGED <<hitl_threshold, ctx, pc, predictor_call, response>>
    /\ UNCHANGED breakerVars

\* client k, as doctor k with a decision taken, calls resolve_hitl_case: the method
\* has no parameter for the decision, the call carries the final risk level
ReviewCall(k) ==
    /\ client[k].pc = "idle"
    /\ \E case_id \in Tokens, d \in ReviewDecisions \cap valid_decisions,
          v \in 1..MaxVersion :
         client' = [client EXCEPT ![k] =
                       [IdleClient EXCEPT !.pc = "resolving", !.op = "resolve",
                                          !.case_id = case_id, !.decision = d,
                                          !.final_risk_level = "HIGH",
                                          !.expected_version = v]]
    /\ UNCHANGED <<sub, accepted>>
    /\ UNCHANGED fsmVars
    /\ UNCHANGED breakerVars

\* doctor k posts to /doctor/hitl-resolve and is answered.  The handler reaches no
\* suspension point before the repository call is made
HitlResolve(k) ==
    /\ client[k].pc = "idle"
    /\ \E case_id \in Tokens, d \in ReviewDecisions, v \in 1..MaxVersion :
         LET r == hitl_resolve(decisions, case_id, k, d, "reviewed", v)
         IN  /\ decisions' = r.coll
             /\ client' = [client EXCEPT ![k] =
                             [IdleClient EXCEPT !.pc = "done", !.op = "hitl-resolve",
                                                !.case_id = case_id, !.decision = d,
                                                !.expected_version = v,
                                                !.status = r.status,
                                                !.seen = StoredVersion(decisions, case_id)]]
             /\ accepted' = IF r.status = 200
                            THEN [accepted EXCEPT ![case_id] = @ + 1]
                            ELSE accepted
    /\ UNCHANGED sub
    /\ UNCHANGED <<hitl_threshold, ctx, pc, predictor_call, response>>
    /\ UNCHANGED breakerVars

\* doctor k gets /doctor/hitl-queue: the endpoint hands on what get_hitl_queue gives.
\* The client keeps the _id of each case of the list
ListQueue(k) ==
    /\ client[k].pc = "idle"
    /\ \E limit \in QueueLimits :
         \E q \in get_hitl_queue(decisions, limit) :
            client' = [client EXCEPT ![k] =
                          [IdleClient EXCEPT !.pc = "done", !.op = "hitl-queue",
                                             !.limit = limit,
                                             !.cases = [i \in 1..Len(q) |-> q[i]._id]]]
    /\ UNCHANGED <<sub, accepted>>
    /\ UNCHANGED fsmVars
    /\ UNCHANGED breakerVars

\* the client takes the result and is ready for its next call
ClientReturn(k) ==
    /\ client[k].pc = "done"
    /\ client' = [client EXCEPT ![k] = IdleClient]
    /\ UNCHANGED <<sub, accepted>>
    /\ UNCHANGED fsmVars
    /\ UNCHANGED breakerVars

\* the clock of the store's specification
StoreTick ==
    /\ now < MaxStoreTime
    /\ Tick

----------------------------------------------------------------------------
(* Specifications                                                          *)

\* the breaker alone, called directly; no triage run takes place
IdleRun ==
    /\ hitl_threshold = 65
    /\ ctx = NewContext(Raw(NormalVitals, {}, {}))
    /\ pc = "idle"
    /\ predictor_call = "none"
    /\ decisions = {}
    /\ response = <<>>

BreakerNext ==
    \/ \E c \in Callers : CallBegin(c)
    \/ \E c \in Callers : CallSucceed(c)
    \/ \E c \in Callers : CallFail(c)
    \/ \E c \in Callers : CallReturn(c)
    \/ Tick

SpecBreakerInit ==
    /\ BreakerInit
    /\ IdleRun
    /\ StoreInit

SpecBreaker == SpecBreakerInit /\ [][BreakerNext]_vars

\* the predictor recovers: its calls may fail only while a cooldown can still elapse
\* on the model's clock after the failure, and succeed from then on
RecoveryFail(c) ==
    /\ now + TimeoutSeconds < MaxTime
    /\ CallFail(c)

SpecRecoveryInit ==
    /\ BreakerInit
    /\ IdleRun
    /\ StoreInit

RecoveryNext ==
    \/ \E c \in Callers : CallBegin(c)
    \/ \E c \in Callers : CallSucceed(c)
    \/ \E c \in Callers : RecoveryFail(c)
    \/ \E c \in Callers : CallReturn(c)
    \/ Tick

\* time advances, every caller keeps calling, and an invoked call completes
RecoveryFairness ==
    /\ WF_vars(Tick)
    /\ \A c \in Callers : WF_vars(CallBegin(c))
    /\ \A c \in Callers : WF_vars(CallSucceed(c))
    /\ \A c \in Callers : WF_vars(CallReturn(c))

SpecRecovery == SpecRecoveryInit /\ [][RecoveryNext]_vars /\ RecoveryFairness

\* one triage run on any raw input and any configured threshold, while another task
\* of the process uses the shared breaker
FSMInit ==
    /\ BreakerInit
    /\ hitl_threshold \in HitlThresholds
    /\ ctx \in {NewContext(raw) : raw \in RawInputs}
    /\ pc = "running"
    /\ predictor_call = "none"
    /\ decisions = {}
    /\ response = <<>>
    /\ StoreInit

FSMNext ==
    \/ RunIngest
    \/ RunSanity
    \/ RunRuleEngine
    \/ RunMLEnter
    \/ RunMLSucceed
    \/ RunMLFail
    \/ RunConfidenceCheck
    \/ RunSaveDb
    \/ HandleTerminalState
    \/ CallBegin(1)
    \/ CallSucceed(1)
    \/ CallFail(1)
    \/ CallReturn(1)
    \/ Tick

Spec == FSMInit /\ [][FSMNext]_vars

\* submissions through submit_triage on a collection one direct client writes to
SpecSubmitInit ==
    /\ BreakerInit
    /\ IdleRun
    /\ StoreInit

SubmitNext ==
    \/ \E s \in Submissions : SubmitCheck(s)
    \/ \E s \in Submissions : SubmitBuild(s)
    \/ SaveCall(1)
    \/ SaveInsert(1)
    \/ ClientReturn(1)
    \/ StoreTick

SpecSubmit == SpecSubmitInit /\ [][SubmitNext]_vars

\* save_triage_decision under concurrent direct clients while time passes
SpecSaveInit ==
    /\ BreakerInit
    /\ IdleRun
    /\ StoreInit

SaveNext ==
    \/ \E k \in Clients : SaveCall(k)
    \/ \E k \in Clients : SaveInsert(k)
    \/ \E k \in Clients : ClientReturn(k)
    \/ StoreTick

SpecSave == SpecSaveInit /\ [][SaveNext]_vars

\* the repository under direct clients that save decisions and resolve cases
SpecStoreInit ==
    /\ BreakerInit
    /\ IdleRun
    /\ StoreInit

StoreNext ==
    \/ \E k \in Clients : SaveCall(k)
    \/ \E k \in Clients : SaveInsert(k)
    \/ \E k \in Clients : ResolveCall(k)
    \/ \E k \in Clients : ResolveUpdate(k)
    \/ \E k \in Clients : ClientReturn(k)

SpecStore == SpecStoreInit /\ [][StoreNext]_vars

\* the front of a triage run, INGEST to RULE_ENGINE, on inputs at the edges of the
\* validator's ranges and of the rules' thresholds
SpecIntakeInit ==
    /\ BreakerInit
    /\ StoreInit
    /\ hitl_threshold = 65
    /\ ctx \in {NewContext(raw) : raw \in IntakeInputs}
    /\ pc = "running"
    /\ predictor_call = "none"
    /\ decisions = {}
    /\ response = <<>>

IntakeNext ==
    \/ RunIngest
    \/ RunSanity
    \/ RunRuleEngine

SpecIntake == SpecIntakeInit /\ [][IntakeNext]_vars

\* the review desk: one client saves decisions, all review them through the
\* repository method or through the endpoint
SpecReviewInit ==
    /\ BreakerInit
    /\ IdleRun
    /\ StoreInit

ReviewNext ==
    \/ SaveCall(1)
    \/ SaveInsert(1)
    \/ \E k \in Clients : ReviewCall(k)
    \/ \E k \in Clients : ResolveUpdate(k)
    \/ \E k \in Clients : HitlResolve(k)
    \/ \E k \in Clients : ClientReturn(k)

SpecReview == SpecReviewInit /\ [][ReviewNext]_vars

\* the review queue: one client saves decisions as the clock advances, another
\* resolves them, and all list the queue
SpecQueueInit ==
    /\ BreakerInit
    /\ IdleRun
    /\ StoreInit

QueueNext ==
    \/ SaveCall(1)
    \/ SaveInsert(1)
    \/ ResolveCall(2)
    \/ ResolveUpdate(2)
    \/ \E k \in Clients : ListQueue(k)
    \/ \E k \in Clients : ClientReturn(k)
    \/ StoreTick

SpecQueue == SpecQueueInit /\ [][QueueNext]_vars

----------------------------------------------------------------------------
(* Claims about the triage state machine, checked under Spec.              *)

\* execute has returned
Returned == pc \in {"returned", "responded"}

\* the handlers that have run so far
Handled == {ctx.fsm_trace[i].from_state : i \in 1..Len(ctx.fsm_trace)}

\* the last transition recorded
LastTransition == ctx.fsm_trace[Len(ctx.fsm_trace)]

\* the rules engine gave a verdict with bypass_ml = true
BypassVerdict == Len(ctx.rule_result) = 1 /\ ctx.rule_result[1].bypass_ml

\* some step of the run's loop can be taken
RunStep ==
    \/ RunIngest \/ RunSanity \/ RunRuleEngine \/ RunMLEnter
    \/ RunConfidenceCheck \/ RunSaveDb

\* the number of handlers that can still run after state s
Rank(s) ==
    CASE s = "INGEST" -> 6
      [] s = "SANITY" -> 5
      [] s = "RULE_ENGINE" -> 4
      [] s = "ML_INFERENCE" -> 3
      [] s = "CONFIDENCE_CHECK" -> 2
      [] s = "SAVE_DB" -> 1
      [] OTHER -> 0

\* C1: execute terminates in DONE, REJECT or HITL_HANDOFF and no exception leaves it:
\* no exception escapes; while the loop runs some handler can run, and a suspended run
\* is resumed by the predictor's return or exception; every pass of the loop moves the
\* state strictly forward; the context execute returns is in a terminal state.
C1_ExecuteTerminates ==
    /\ [](/\ pc # "escaped"
          /\ Returned => ctx.current_state \in TerminalStates
          /\ pc = "running" => (ctx.current_state \notin TerminalStates /\ ENABLED RunStep)
          /\ pc = "awaiting" => (ctx.current_state = "ML_INFERENCE"
                                  /\ ENABLED RunMLSucceed /\ ENABLED RunMLFail))
    /\ [][ctx' # ctx => Rank(ctx'.current_state) < Rank(ctx.current_state)]_vars

\* C1 witness: a run refused by the open breaker has returned in a terminal state.
C1_Witness ==
    /\ pc = "returned"
    /\ predictor_call = "CircuitBreakerOpen"
    /\ ctx.current_state \in TerminalStates

\* C2: once the rule verdict has bypass_ml = true, the breaker is never entered for the
\* run (no step of the run changes it), the confidence is 1.0, the run passes through
\* CONFIDENCE_CHECK and SAVE_DB only and returns in DONE without requires_hitl,
\* under every configured threshold.
C2_BypassSkipsPredictor ==
    /\ [](BypassVerdict =>
            /\ predictor_call = "none"
            /\ pc # "awaiting"
            /\ ctx.confidence = 100
            /\ ctx.current_state \in {"CONFIDENCE_CHECK", "SAVE_DB", "DONE"}
            /\ "ML_INFERENCE" \notin Handled
            /\ ~ctx.requires_hitl
            /\ (Returned => ctx.current_state = "DONE"))
    /\ [][(ctx' # ctx /\ BypassVerdict') => cb' = cb]_vars

\* C2 witness: a bypass run has returned in DONE under the highest threshold.
C2_Witness ==
    /\ BypassVerdict
    /\ pc = "returned"
    /\ ctx.current_state = "DONE"
    /\ hitl_threshold = 100

PredictorFailed == predictor_call \in {"raised", "CircuitBreakerOpen"}

\* C3: the step in which the predictor call fails (refused by the breaker, or raised
\* by the predictor) takes the run from ML_INFERENCE to CONFIDENCE_CHECK with the rule
\* verdict's risk level, confidence 0.5 and the degraded-mode alert; a run whose
\* predictor call failed is never in REJECT.
C3_PredictorFailureFallsBack ==
    /\ [][(PredictorFailed' /\ ~PredictorFailed) =>
            /\ ctx.current_state = "ML_INFERENCE"
            /\ ctx'.current_state = "CONFIDENCE_CHECK"
            /\ ctx'.final_risk_level = ctx.rule_result[1].risk_level
            /\ ctx'.confidence = 50
            /\ ctx'.alerts = <<"ML model unavailable - using rule-based assessment">>
            /\ ctx'.fsm_trace =
                 Append(ctx.fsm_trace, Transition("ML_INFERENCE", "CONFIDENCE_CHECK", "None"))
            /\ pc' = "running"]_vars
    /\ [](PredictorFailed => ctx.current_state # "REJECT")

\* C3 witness: both kinds of failure have been absorbed: this one a predictor exception
\* after which the run has returned.
C3_Witness ==
    /\ predictor_call = "raised"
    /\ pc = "returned"
    /\ ctx.final_risk_level = "HIGH"
    /\ ctx.confidence = 50

\* the condition of the handoff
LowConfidence == ~ctx.bypass_ml /\ ctx.confidence < hitl_threshold

\* C4: a returned run that went through CONFIDENCE_CHECK is in HITL_HANDOFF with
\* requires_hitl exactly when bypass_ml is false and confidence < hitl_threshold, and
\* then it went there straight from CONFIDENCE_CHECK; otherwise it is in DONE without
\* requires_hitl, having gone CONFIDENCE_CHECK -> SAVE_DB -> DONE.
C4_HandoffIffLowConfidence ==
    (Returned /\ "CONFIDENCE_CHECK" \in Handled) =>
        /\ (ctx.current_state = "HITL_HANDOFF") <=> LowConfidence
        /\ ctx.requires_hitl <=> LowConfidence
        /\ LowConfidence =>
            LastTransition = Transition("CONFIDENCE_CHECK", "HITL_HANDOFF", "None")
        /\ ~LowConfidence =>
            /\ ctx.current_state = "DONE"
            /\ LastTransition = Transition("SAVE_DB", "DONE", "None")
            /\ ctx.fsm_trace[Len(ctx.fsm_trace) - 1] =
                 Transition("CONFIDENCE_CHECK", "SAVE_DB", "None")

\* C4 witness: a predictor confidence equal to the threshold has gone to DONE.
C4_Witness ==
    /\ Returned
    /\ predictor_call = "returned"
    /\ ctx.confidence = hitl_threshold
    /\ ctx.current_state = "DONE"

\* the raw input holds a deny-listed field name
HoneypotInput == ctx.raw_vitals.extra \cap honeypot_fields # {}

\* C5: for a raw input with a deny-listed field name the validator, the rules engine and
\* the predictor never run, and once INGEST has run the run has returned in REJECT with
\* the single transition INGEST -> REJECT, is_honeypot_triggered and the one generic
\* message.
C5_HoneypotRejectsAtIngest ==
    HoneypotInput =>
        /\ ctx.validated_vitals = <<>>
        /\ ctx.rule_result = <<>>
        /\ ctx.ml_result = <<>>
        /\ predictor_call = "none"
        /\ \/ /\ pc = "running"
              /\ ctx.current_state = "INGEST"
              /\ ctx.fsm_trace = <<>>
           \/ /\ Returned
              /\ ctx.current_state = "REJECT"
              /\ ctx.is_honeypot_triggered
              /\ ctx.error_message = "Invalid request structure"
              /\ ctx.fsm_trace = <<Transition("INGEST", "REJECT", "Invalid request structure")>>

\* C5 witness: a prototype-pollution field on otherwise invalid vitals was rejected.
C5_Witness ==
    /\ "__proto__" \in ctx.raw_vitals.extra
    /\ ~ClinicalVitals(ctx.raw_vitals).ok
    /\ pc = "returned"
    /\ ctx.is_honeypot_triggered

\* something downstream of SANITY has been reached
Downstream ==
    \/ ctx.current_state \in
         {"RULE_ENGINE", "ML_INFERENCE", "CONFIDENCE_CHECK", "SAVE_DB", "DONE", "HITL_HANDOFF"}
    \/ Handled \cap {"RULE_ENGINE", "ML_INFERENCE", "CONFIDENCE_CHECK", "SAVE_DB"} # {}
    \/ ctx.rule_result # <<>>
    \/ predictor_call # "none"
    \/ decisions # {}

\* C6: the rules engine, the breaker, the predictor and the store are reached only
\* after SANITY has accepted the input (the second transition is SANITY -> RULE_ENGINE);
\* once SANITY has run on an input the validator refuses, the run is in REJECT with
\* the validator's error, nothing is ever stored and the answer is that error.
C6_ValidationFirst ==
    /\ Downstream =>
        /\ ClinicalVitals(ctx.raw_vitals).ok
        /\ ctx.validated_vitals = <<ctx.raw_vitals.vitals>>
        /\ Len(ctx.fsm_trace) >= 2
        /\ ctx.fsm_trace[2] = Transition("SANITY", "RULE_ENGINE", "None")
    /\ ("SANITY" \in Handled /\ ~ClinicalVitals(ctx.raw_vitals).ok) =>
        /\ ctx.current_state = "REJECT"
        /\ ctx.error_message = ValidationFailed(ClinicalVitals(ctx.raw_vitals).error)
        /\ LastTransition = Transition("SANITY", "REJECT", ctx.error_message)
        /\ decisions = {}
        /\ pc = "responded" => response = <<[status |-> 400, detail |-> ctx.error_message]>>

\* C6 witness: reversed blood pressure was refused and answered, nothing was stored.
C6_Witness ==
    /\ pc = "responded"
    /\ ctx.error_message = "Validation failed: ADVERSARIAL_INPUT"
    /\ decisions = {}

\* C7: the pass of the loop in which the RULE_ENGINE handler raises (no verdict is
\* set) changes the context in exactly this: the state is REJECT, the error message is
\* the exception's message, one transition RULE_ENGINE -> REJECT carrying the message
\* is appended; execute returns, and a returned context never changes again.
C7_HandlerExceptionRejects ==
    [][ /\ (ctx.current_state = "RULE_ENGINE" /\ ctx' # ctx /\ ctx'.rule_result = <<>>) =>
            /\ ctx' = [ctx EXCEPT
                         !.current_state = "REJECT",
                         !.error_message = "rules engine failure",
                         !.fsm_trace = Append(@, Transition("RULE_ENGINE", "REJECT",
                                                           "rules engine failure"))]
            /\ pc' = "returned"
        /\ Returned => (ctx' = ctx /\ pc' # "running" /\ pc' # "awaiting")
      ]_vars

\* C7 witness: the rules engine raised and the run has returned in REJECT.
C7_Witness ==
    /\ pc = "returned"
    /\ ctx.current_state = "REJECT"
    /\ ctx.error_message = "rules engine failure"
    /\ Len(ctx.fsm_trace) = 3

----------------------------------------------------------------------------
(* Claims about the circuit breaker, checked under SpecBreaker.            *)

\* caller c enters call() in this step
Enters(c) == caller_pc[c] = "idle" /\ caller_pc'[c] # "idle"

\* caller c's call completes with a success, or with a failure, in this step
Succeeds(c) == caller_pc[c] = "invoked" /\ caller_pc'[c] = "done" /\ caller_result'[c] = "returned"
Fails(c) == caller_pc[c] = "invoked" /\ caller_pc'[c] = "done" /\ caller_result'[c] = "raised"

Elapsed == now - cb.last_failure_time

\* C8: from CLOSED, the failure that completes a run of FailureThreshold consecutive
\* failed calls leaves the breaker OPEN; a call entered while the breaker is OPEN and
\* the cooldown has not elapsed raises CircuitBreakerOpen, does not invoke the wrapped
\* function and changes no field of the breaker.
C8_OpensAtThresholdThenBlocks ==
    [][ /\ (cb.state = "CLOSED" /\ (\E c \in Callers : Fails(c)) /\ streak' = FailureThreshold)
            => cb'.state = "OPEN"
        /\ \A c \in Callers :
            (Enters(c) /\ cb.state = "OPEN" /\ Elapsed < TimeoutSeconds)
            => /\ caller_result'[c] = "CircuitBreakerOpen"
               /\ caller_pc'[c] = "done"
               /\ cb' = cb
      ]_vars

\* C8 witness: the breaker is OPEN after FailureThreshold consecutive failures and a
\* call made within the cooldown has been refused.
C8_Witness ==
    /\ cb.state = "OPEN"
    /\ streak = FailureThreshold
    /\ cb.failure_count = FailureThreshold
    /\ Elapsed < TimeoutSeconds
    /\ \E c \in Callers : caller_pc[c] = "done" /\ caller_result[c] = "CircuitBreakerOpen"

\* C9 as stated: a call entered on an OPEN breaker with elapsed >= TimeoutSeconds,
\* equality included, moves the breaker to HALF_OPEN and invokes the wrapped function.
C9_Original ==
    [][ \A c \in Callers :
            (Enters(c) /\ cb.state = "OPEN" /\ Elapsed >= TimeoutSeconds)
            => (cb'.state = "HALF_OPEN" /\ caller_pc'[c] = "invoked")
      ]_vars

\* C9 amended: a call entered on an OPEN breaker with elapsed strictly greater than
\* TimeoutSeconds moves the breaker to HALF_OPEN and invokes the wrapped function;
\* with elapsed exactly equal to TimeoutSeconds the call still fails fast.
C9_HalfOpenAfterStrictTimeout ==
    [][ \A c \in Callers :
            /\ (Enters(c) /\ cb.state = "OPEN" /\ Elapsed > TimeoutSeconds)
                => (cb'.state = "HALF_OPEN" /\ caller_pc'[c] = "invoked")
            /\ (Enters(c) /\ cb.state = "OPEN" /\ Elapsed = TimeoutSeconds)
                => (cb' = cb /\ caller_pc'[c] = "done"
                    /\ caller_result'[c] = "CircuitBreakerOpen")
      ]_vars

\* C9 witness: a call entered after the cooldown is in flight on a HALF_OPEN breaker.
C9_Witness ==
    /\ cb.state = "HALF_OPEN"
    /\ Elapsed > TimeoutSeconds
    /\ cb.success_count = 0
    /\ \E c \in Callers : caller_pc[c] = "invoked"

\* C10: a success on a CLOSED breaker leaves it CLOSED with failure counter 0; the
\* breaker goes from CLOSED to OPEN only on the failure that makes FailureThreshold
\* consecutive failures; whenever the breaker is CLOSED the counter equals the number
\* of failures since the last success and is below FailureThreshold.
C10_ClosedCountsConsecutiveFailures ==
    [][ /\ (cb.state = "CLOSED" /\ \E c \in Callers : Succeeds(c))
            => (cb'.state = "CLOSED" /\ cb'.failure_count = 0)
        /\ (cb.state = "CLOSED" /\ cb'.state = "OPEN")
            => (streak' = FailureThreshold /\ \E c \in Callers : Fails(c))
        /\ cb'.state = "CLOSED"
            => (cb'.failure_count = streak' /\ streak' < FailureThreshold)
      ]_vars

\* C10 witness: a CLOSED breaker that has counted failures, then a success, then
\* failures again below the threshold.
C10_Witness ==
    /\ cb.state = "CLOSED"
    /\ cb.failure_count = FailureThreshold - 1
    /\ streak = FailureThreshold - 1
    /\ \E c \in Callers : caller_result[c] = "returned"

C12_HalfOpenSuccessesClose ==
    /\ [][ (cb.state = "HALF_OPEN" /\ \E c \in Callers : Succeeds(c))
            => IF cb.success_count + 1 < HalfOpenAttempts
               THEN cb' = [cb EXCEPT !.success_count = @ + 1]
               ELSE cb' = [cb EXCEPT !.state = "CLOSED", !.failure_count = 0,
                                     !.success_count = 0]
         ]_vars
    /\ [](cb.state = "HALF_OPEN" => cb.success_count < HalfOpenAttempts)

\* C12 witness: a HALF_OPEN breaker that has counted all but the last of the
\* successes it needs.
C12_Witness ==
    /\ cb.state = "HALF_OPEN"
    /\ cb.success_count = HalfOpenAttempts - 1
    /\ \E c \in Callers : caller_pc[c] = "done" /\ caller_result[c] = "returned"

\* C13 as stated: the breaker goes from HALF_OPEN to CLOSED only when HalfOpenAttempts
\* calls that were invoked during the current HALF_OPEN period have succeeded in it; the
\* success of a call invoked earlier does not count.
C13_Original ==
    [][ (cb.state = "HALF_OPEN" /\ cb'.state = "CLOSED")
            => probe_successes' >= HalfOpenAttempts
      ]_vars

----------------------------------------------------------------------------
(* Claims about submit_triage, checked under SpecSubmit.                   *)

Answered(s) == sub[s].pc = "answered"

\* submission s made its idempotency check after submission r was answered
After(r, s) == r \in sub[s].prior

SameToken(r, s) == sub[r].client_sync_uuid = sub[s].client_sync_uuid

\* what two outcomes of one decision have in common
Outcome(s) ==
    [assessment_id |-> sub[s].response.assessment_id,
     risk_level    |-> sub[s].response.risk_level,
     confidence    |-> sub[s].response.confidence,
     alerts        |-> sub[s].response.alerts]

\* C14 as stated: the submissions of the process share one breaker, so that the
\* predictor failures of separate submissions are counted together: every submission
\* that is answered without a replay has had its machine built on the shared breaker.
C14_Original ==
    \A s \in Submissions :
        (Answered(s) /\ ~sub[s].response.replay) => sub[s].machine = "shared breaker"

\* C15 as stated: of two submissions of one token, the second made after the first
\* was answered and within the TTL window, the second is a replay and both outcomes
\* carry the same decision id, risk level, confidence and alerts.
C15_Original ==
    \A r, s \in Submissions :
        (/\ Answered(r) /\ Answered(s) /\ After(r, s) /\ SameToken(r, s)
         /\ sub[s].at - sub[r].at <= IdempotencyTtl)
        => (/\ sub[s].response.status = 200
            /\ sub[s].response.replay
            /\ Outcome(s) = Outcome(r))

\* C16 as stated: of two submissions of one token that run concurrently and find no
\* decision of the token when the first of them checks, one is accepted, the other is
\* a replay of the same decision, and neither is answered with an error.
C16_Original ==
    \A r, s \in Submissions :
        (/\ r # s /\ Answered(r) /\ Answered(s) /\ SameToken(r, s)
         /\ ~After(r, s) /\ ~After(s, r)
         /\ ~(sub[r].response.replay /\ sub[s].response.replay))
        => (/\ sub[r].response.status = 200
            /\ sub[s].response.status = 200
            /\ sub[r].response.replay # sub[s].response.replay
            /\ sub[r].response.assessment_id = sub[s].response.assessment_id)

----------------------------------------------------------------------------
(* Claims about the repository, checked under SpecSave and SpecStore.      *)

\* C17: the collection never holds two documents of one client_sync_uuid (nor two of
\* one _id); a save that is refused with DuplicateKeyError finds the token's document
\* in the collection, and a save that is accepted has put its document there.
C17_OneDecisionPerToken ==
    /\ \A d, e \in decisions :
         (d.client_sync_uuid = e.client_sync_uuid \/ d._id = e._id) => d = e
    /\ \A k \in Clients :
         /\ client[k].result = "DuplicateKeyError" =>
              \E d \in decisions : d.client_sync_uuid = client[k].doc[1].client_sync_uuid
         /\ client[k].result = "saved" =>
              Stored(client[k].doc[1], client[k].case_id) \in decisions

\* C17 witness: a token was saved again after its TTL window had passed and the save
\* was refused; the collection holds the one older document.
C17_Witness ==
    \E k \in Clients :
        /\ client[k].result = "DuplicateKeyError"
        /\ \E d \in decisions :
             /\ d.client_sync_uuid = client[k].doc[1].client_sync_uuid
             /\ client[k].doc[1].created_at - d.created_at > IdempotencyTtl
        /\ Cardinality(decisions) = NumTokens

\* client k's resolve call has completed
ResolveDone(k) == client[k].pc = "done" /\ client[k].op = "resolve"

\* two resolve calls on the same case with the same expected version
SameTarget(j, k) ==
    /\ client[j].case_id = client[k].case_id
    /\ client[j].expected_version = client[k].expected_version

\* the stored documents a resolve call of client k matches
Matching(k) ==
    {d \in decisions : d._id = client[k].case_id /\ d.version_id = client[k].expected_version}

\* client k's resolve call completes in this step
Resolves(k) == client[k].pc = "resolving" /\ client'[k].pc # "resolving"

\* C18: of two resolve calls on the same case with the same expected version at most
\* one returns True; the one the database applies first, on a document still at the
\* expected version, returns True and leaves the version at expected + 1; the other
\* then returns False (version conflict), and a document at expected + 1 holds the
\* review fields of the call that returned True.
C18_OneResolveWins ==
    /\ [](\A j, k \in Clients :
            (j # k /\ ResolveDone(j) /\ ResolveDone(k) /\ SameTarget(j, k)) =>
                /\ ~(client[j].result = "True" /\ client[k].result = "True")
                /\ (client[j].result = "True" /\ client[k].result = "False") =>
                     \A d \in decisions :
                        (d._id = client[j].case_id
                         /\ d.version_id = client[j].expected_version + 1) =>
                            /\ d.reviewed_by = j
                            /\ d.final_risk_level = client[j].final_risk_level
                            /\ d.review_status = "RESOLVED")
    /\ [][ \A k \in Clients :
             (Resolves(k) /\ Matching(k) # {}) =>
                /\ client'[k].result = "True"
                /\ \E d \in decisions' :
                     /\ d._id = client[k].case_id
                     /\ d.version_id = client[k].expected_version + 1
                     /\ d.reviewed_by = k
                /\ \A j \in Clients \ {k} :
                     (client[j].pc = "resolving" /\ SameTarget(j, k)) => Matching(j)' = {}
         ]_vars

\* C18 witness: two calls were in flight together on one case and one version; the
\* first to be applied returned True, the other False, and the document carries the
\* winner's risk level, which is not the loser's.
C18_Witness ==
    \E j, k \in Clients :
        /\ j # k /\ ResolveDone(j) /\ ResolveDone(k) /\ SameTarget(j, k)
        /\ k \in client[j].raced
        /\ client[j].result = "True" /\ client[k].result = "False"
        /\ client[j].final_risk_level # client[k].final_risk_level
        /\ \E d \in decisions :
             /\ d._id = client[j].case_id
             /\ d.version_id = client[j].expected_version + 1
             /\ d.final_risk_level = client[j].final_risk_level

\* the case of client k's resolve call is stored at another version than it expects
VersionDiffers(k) ==
    \E d \in decisions : d._id = client[k].case_id /\ d.version_id # client[k].expected_version

\* C19: a resolve call that finds its case stored at another version than it expects
\* returns False in that one step and the collection is left exactly as it was; the
\* collection changes only in the step in which a save is accepted or a resolve
\* returns True, so nothing is retried on the caller's behalf.
C19_ConflictWritesNothing ==
    [][ /\ \A k \in Clients :
             (Resolves(k) /\ VersionDiffers(k)) =>
                /\ client'[k].pc = "done"
                /\ client'[k].result = "False"
                /\ decisions' = decisions
                /\ accepted' = accepted
        /\ decisions' # decisions =>
             \E k \in Clients :
                /\ client[k].pc \in {"saving", "resolving"}
                /\ client'[k].pc = "done"
                /\ client'[k].result \in {"saved", "True"}
      ]_vars

\* C19 witness: a resolve call expecting version 1 has returned False on a case that
\* another review had already moved to version 2.
C19_Witness ==
    \E k \in Clients :
        /\ ResolveDone(k)
        /\ client[k].result = "False"
        /\ client[k].expected_version = 1
        /\ \E d \in decisions :
             /\ d._id = client[k].case_id
             /\ d.version_id = 2
             /\ d.reviewed_by # k

\* C20: every stored document's version_id is 1 + the number of resolve calls that
\* returned True for it; a document enters the collection with version_id 1, and a
\* step leaves a stored document's version_id as it is or raises it by exactly 1.
C20_VersionCountsResolves ==
    /\ [](\A d \in decisions : d.version_id = 1 + accepted[d._id])
    /\ [][ /\ \A d \in decisions :
                \E e \in decisions' :
                    /\ e._id = d._id
                    /\ e.version_id \in {d.version_id, d.version_id + 1}
           /\ \A e \in decisions' :
                (\A d \in decisions : d._id # e._id) => e.version_id = 1
         ]_vars

\* C20 witness: a document that two accepted reviews have taken to version 3.
C20_Witness ==
    \E d \in decisions :
        /\ d.version_id = 3
        /\ accepted[d._id] = 2
        /\ d.review_status = "RESOLVED"

----------------------------------------------------------------------------
(* Claims about the review of stored decisions, checked under SpecReview   *)
(* and SpecQueue.                                                          *)

\* client k's review, through the repository method or the endpoint, has completed
ReviewDone(k) ==
    /\ client[k].pc = "done"
    /\ client[k].op \in {"resolve", "hitl-resolve"}
    /\ client[k].decision \in valid_decisions

\* the review was accepted: the method returned True, the endpoint answered 200
ReviewAccepted(k) ==
    \/ client[k].op = "resolve" /\ client[k].result = "True"
    \/ client[k].op = "hitl-resolve" /\ client[k].status = 200

\* what the reviewer is told
ReviewOutcome(k) == <<client[k].result, client[k].status>>

\* C21 as stated: after an accepted review with a valid decision d the stored
\* document, while it is as that review left it, has review_status d, the reviewer's
\* id and the reviewer's notes.
C21_Original ==
    \A k \in Clients :
        (ReviewDone(k) /\ ReviewAccepted(k)) =>
            \A d \in decisions :
                (/\ d._id = client[k].case_id
                 /\ d.version_id = client[k].expected_version + 1
                 /\ d.reviewed_by = k) =>
                    /\ d.review_status = client[k].decision
                    /\ d.review_notes = "reviewed"

\* C22 as stated: a review of a case id that names no stored document is told
\* something else than a review that met a version conflict.
C22_Original ==
    \A j, k \in Clients :
        (/\ ReviewDone(j) /\ client[j].seen = 0
         /\ ReviewDone(k) /\ client[k].seen \notin {0, client[k].expected_version}
         /\ client[j].op = client[k].op) =>
            ReviewOutcome(j) # ReviewOutcome(k)

\* client k lists the queue in this step
Lists(k) ==
    client[k].pc = "idle" /\ client'[k].pc = "done" /\ client'[k].op = "hitl-queue"

\* the _ids of the list client k was given
Listed(k) == {client[k].cases[i] : i \in 1..Len(client[k].cases)}

\* the stored decisions that ended in HITL_HANDOFF and have no accepted review
AwaitingReview ==
    {d \in decisions : d.fsm_state = "HITL_HANDOFF" /\ accepted[d._id] = 0}

\* C23 as stated: every listing gives exactly the stored decisions that require
\* review and are PENDING, which are those that ended in HITL_HANDOFF and have no
\* accepted review.
C23_Original ==
    [][ \A k \in Clients :
            Lists(k) =>
                /\ Listed(k)' = {d._id : d \in PendingReview(decisions)}
                /\ Listed(k)' = {d._id : d \in AwaitingReview}
      ]_vars

\* C23: the stored decisions that require review and are PENDING are those that ended
\* in HITL_HANDOFF and have no accepted review; a listing gives min(limit, their
\* number) of them, each once, none older than one it leaves out, and so all of them
\* when they are no more than the limit.  A decision that ended in DONE, or one with
\* an accepted review, is in no listing.
C23_QueueWithinLimit ==
    /\ [](PendingReview(decisions) = AwaitingReview)
    /\ [][ \A k \in Clients :
             Lists(k) =>
                LET ids == {d._id : d \in AwaitingReview}
                    n == Cardinality(ids)
                    got == client'[k].cases
                IN  /\ Listed(k)' \subseteq ids
                    /\ Len(got) = Min(client'[k].limit, n)
                    /\ \A i, j \in 1..Len(got) : i # j => got[i] # got[j]
                    /\ client'[k].limit >= n => Listed(k)' = ids
                    /\ \A d \in AwaitingReview, e \in AwaitingReview :
                         (d._id \in Listed(k)' /\ e._id \notin Listed(k)') =>
                            d.created_at >= e.created_at
         ]_vars

\* C23 witness: a listing under the default limit that holds a case awaiting review
\* and leaves out a case that ended in HITL_HANDOFF too and has been reviewed.
C23_Witness ==
    \E k \in Clients :
        /\ client[k].pc = "done" /\ client[k].op = "hitl-queue"
        /\ client[k].limit = 50
        /\ \E d \in decisions, e \in decisions :
             /\ d.fsm_state = "HITL_HANDOFF" /\ d._id \in Listed(k)
             /\ e.fsm_state = "HITL_HANDOFF" /\ e.review_status = "RESOLVED"
             /\ e.created_at > d.created_at
             /\ e._id \notin Listed(k)

----------------------------------------------------------------------------
(* Further claims about the triage state machine, checked under Spec.      *)

\* the trace of the run
Trace == ctx.fsm_trace

\* C24: the trace is a chain from INGEST to the current state: its first record
\* starts at INGEST, each record ends where the next starts, and the last ends in the
\* run's current state, which is the terminal state once execute has returned.  A
\* step leaves the trace as it is or appends one record to it, and appends exactly
\* when a handler has completed, that is, when the state has changed.
C24_TraceIsChain ==
    /\ [](/\ ctx.current_state = IF Trace = <<>> THEN "INGEST" ELSE LastTransition.to_state
          /\ Trace # <<>> => Trace[1].from_state = "INGEST"
          /\ \A i \in 1..(Len(Trace) - 1) : Trace[i].to_state = Trace[i + 1].from_state
          /\ Returned => (Trace # <<>> /\ LastTransition.to_state \in TerminalStates))
    /\ [][ /\ \/ Trace' = Trace
              \/ /\ Len(Trace') = Len(Trace) + 1
                 /\ SubSeq(Trace', 1, Len(Trace)) = Trace
           /\ (ctx'.current_state # ctx.current_state) <=> (Trace' # Trace)
         ]_vars

\* C24 witness: a run has returned DONE with the six records of the full path, the
\* fourth of them the predictor's.
C24_Witness ==
    /\ Returned
    /\ Len(Trace) = 6
    /\ Trace[4].from_state = "ML_INFERENCE"
    /\ LastTransition = Transition("SAVE_DB", "DONE", "None")

----------------------------------------------------------------------------
(* Claims about the validator, the rules engine and INGEST, checked under  *)
(* SpecIntake.                                                             *)

\* the vitals submitted, and the fields of them that are missing or wrongly typed
Submitted == ctx.raw_vitals.vitals
Untyped == ctx.raw_vitals.bad

\* the validator has run on the input; it accepted it
Validated == "SANITY" \in Handled
Accepted == Validated /\ LastTransition.to_state # "REJECT" /\ ctx.validated_vitals # <<>>

\* C25 as stated: an input with systolic_bp <= diastolic_bp (both of them integers)
\* fails validation with the ADVERSARIAL_INPUT error, whatever its other fields.
C25_Original ==
    (/\ Validated
     /\ Untyped \cap {"systolic_bp", "diastolic_bp"} = {}
     /\ Submitted.systolic_bp <= Submitted.diastolic_bp) =>
        /\ ctx.current_state = "REJECT"
        /\ ctx.error_message = "Validation failed: ADVERSARIAL_INPUT"

\* every field of the input is of its type and within its inclusive range
WithinRanges ==
    /\ Untyped = {}
    /\ Submitted.age >= 15 /\ Submitted.age <= 60
    /\ Submitted.systolic_bp >= 70 /\ Submitted.systolic_bp <= 230
    /\ Submitted.diastolic_bp >= 40 /\ Submitted.diastolic_bp <= 140
    /\ Submitted.heart_rate >= 45 /\ Submitted.heart_rate <= 180
    /\ Submitted.body_temp >= 340 /\ Submitted.body_temp <= 420
    /\ Submitted.blood_oxygen >= 700 /\ Submitted.blood_oxygen <= 1000
    /\ Submitted.blood_sugar >= 5 /\ Submitted.blood_sugar <= 300
    /\ Submitted.gestational_weeks >= 1 /\ Submitted.gestational_weeks <= 42

\* C26 as stated: once the validator has run, the input is accepted exactly when
\* each of the eight vitals is within its inclusive range and systolic_bp >
\* diastolic_bp.
C26_Original ==
    Validated =>
        (Accepted <=> (WithinRanges /\ Submitted.systolic_bp > Submitted.diastolic_bp))

\* C26: once the validator has run, the input is accepted (the run is at RULE_ENGINE
\* with the input as validated vitals) exactly when every vital is within its
\* inclusive range, systolic_bp > diastolic_bp and the symptoms text, if there is
\* one, has at most 500 characters; otherwise the run is at REJECT.
C26_AcceptsExactlyInRange ==
    Validated =>
        IF /\ WithinRanges
           /\ Submitted.systolic_bp > Submitted.diastolic_bp
           /\ ctx.raw_vitals.symptoms <= 500
        THEN /\ LastTransition = Transition("SANITY", "RULE_ENGINE", "None")
                \/ "RULE_ENGINE" \in Handled
             /\ ctx.validated_vitals = <<Submitted>>
        ELSE /\ ctx.current_state = "REJECT"
             /\ ctx.validated_vitals = <<>>

\* C26 witness: the input with every field at the upper end of its range, the
\* symptoms text of 500 characters included, has been accepted.
C26_Witness ==
    /\ Accepted
    /\ Submitted = HighestVitals
    /\ ctx.raw_vitals.symptoms = 500

\* the rules engine has returned its verdict for the validated vitals
Evaluated == "RULE_ENGINE" \in Handled /\ ctx.rule_result # <<>>
Verdict == ctx.rule_result[1]
Vitals == ctx.validated_vitals[1]
AlertSet == {Verdict.alerts[i] : i \in 1..Len(Verdict.alerts)}

\* C27: for validated vitals with systolic_bp >= 140 or diastolic_bp >= 90 the
\* verdict is CRITICAL with the alert HYPERTENSIVE_CRISIS, bypass_ml true and
\* confidence 1.0.
C27_HypertensiveCrisis ==
    (Evaluated /\ (Vitals.systolic_bp >= 140 \/ Vitals.diastolic_bp >= 90)) =>
        /\ Verdict.risk_level = "CRITICAL"
        /\ "HYPERTENSIVE_CRISIS" \in AlertSet
        /\ Verdict.bypass_ml
        /\ Verdict.confidence = 100

\* C27 witness: a verdict for a diastolic pressure of exactly 90 under a systolic
\* pressure below 140, with a fever and an advanced age besides.
C27_Witness ==
    /\ Evaluated
    /\ Vitals.diastolic_bp = 90 /\ Vitals.systolic_bp = 139
    /\ Vitals.body_temp = 386 /\ Vitals.age = 35
    /\ Verdict.risk_level = "CRITICAL"

\* the rules that fire for the validated vitals, by severity
CriticalFires ==
    \/ Vitals.systolic_bp >= 140 \/ Vitals.diastolic_bp >= 90
    \/ Vitals.blood_oxygen < 940
    \/ Vitals.heart_rate > 120
    \/ Vitals.blood_sugar < 30
    \/ Vitals.blood_sugar > 110
HighFires == Vitals.body_temp > 385
MediumFires == Vitals.age >= 35 \/ Vitals.gestational_weeks > 40

\* C28: the verdict's risk level is the highest severity among the rules that fire:
\* CRITICAL if one of the five bypass rules fires, else HIGH if hyperthermia fires,
\* else MEDIUM if advanced age or post-term pregnancy fires, else LOW.
C28_HighestSeverity ==
    Evaluated =>
        Verdict.risk_level = IF CriticalFires THEN "CRITICAL"
                             ELSE IF HighFires THEN "HIGH"
                             ELSE IF MediumFires THEN "MEDIUM"
                             ELSE "LOW"

\* C28 witness: hypoglycemia, then hyperthermia and post-term pregnancy have fired
\* and the verdict is still CRITICAL.
C28_Witness ==
    /\ Evaluated
    /\ Vitals.blood_sugar = 29 /\ Vitals.systolic_bp = 139 /\ Vitals.diastolic_bp = 89
    /\ AlertSet = {"HYPOGLYCEMIA", "HYPERTHERMIA", "POST_TERM_PREGNANCY"}
    /\ Verdict.risk_level = "CRITICAL"

\* C29 as stated: a raw input that holds is_admin, __proto__ or $where as a field
\* name is rejected at INGEST with the honeypot flag set.
C29_Original ==
    ("INGEST" \in Handled /\ ctx.raw_vitals.extra \cap MarkerFields # {}) =>
        /\ ctx.fsm_trace[1] = Transition("INGEST", "REJECT", "Invalid request structure")
        /\ ctx.is_honeypot_triggered

----------------------------------------------------------------------------
(* The transitions of a run, checked under Spec.                           *)

\* the transitions the state handlers make
HandlerTransitions ==
    {<<"INGEST", "SANITY">>, <<"INGEST", "REJECT">>,
     <<"SANITY", "RULE_ENGINE">>, <<"SANITY", "REJECT">>,
     <<"RULE_ENGINE", "ML_INFERENCE">>, <<"RULE_ENGINE", "CONFIDENCE_CHECK">>,
     <<"ML_INFERENCE", "CONFIDENCE_CHECK">>,
     <<"CONFIDENCE_CHECK", "SAVE_DB">>, <<"CONFIDENCE_CHECK", "HITL_HANDOFF">>,
     <<"SAVE_DB", "DONE">>}

\* C30: every record of the trace is one of the handlers' transitions or a move to
\* REJECT that carries the handler's exception; no state is entered twice and INGEST
\* is not entered again; HITL_HANDOFF is entered only from CONFIDENCE_CHECK and DONE
\* only from SAVE_DB.
C30_OnlyListedTransitions ==
    \A i \in 1..Len(Trace) :
        /\ \/ <<Trace[i].from_state, Trace[i].to_state>> \in HandlerTransitions
           \/ Trace[i].to_state = "REJECT" /\ Trace[i].error # "None"
        /\ Trace[i].to_state # "INGEST"
        /\ \A j \in 1..Len(Trace) : i # j => Trace[i].to_state # Trace[j].to_state
        /\ Trace[i].to_state = "HITL_HANDOFF" => Trace[i].from_state = "CONFIDENCE_CHECK"
        /\ Trace[i].to_state = "DONE" => Trace[i].from_state = "SAVE_DB"

\* C30 witness: a run whose rules verdict skipped the predictor has returned DONE
\* by way of CONFIDENCE_CHECK and SAVE_DB.
C30_Witness ==
    /\ Returned
    /\ Len(Trace) = 5
    /\ Trace[3] = Transition("RULE_ENGINE", "CONFIDENCE_CHECK", "None")
    /\ Trace[4] = Transition("CONFIDENCE_CHECK", "SAVE_DB", "None")
    /\ LastTransition = Transition("SAVE_DB", "DONE", "None")

----------------------------------------------------------------------------
(* Further claims about the circuit breaker.                               *)

\* the state changes the module docstring lists
StateTransitions ==
    {<<"CLOSED", "OPEN">>, <<"OPEN", "HALF_OPEN">>,
     <<"HALF_OPEN", "CLOSED">>, <<"HALF_OPEN", "OPEN">>}

\* C31: under any interleaving of calls, every step that changes the breaker's state
\* takes it along CLOSED->OPEN, OPEN->HALF_OPEN, HALF_OPEN->CLOSED or HALF_OPEN->OPEN;
\* in particular never from CLOSED to HALF_OPEN nor from OPEN to CLOSED.
C31_OnlyListedStateChanges ==
    [][ cb'.state # cb.state => <<cb.state, cb'.state>> \in StateTransitions ]_vars

\* C31 witness: a breaker that opened, went HALF_OPEN after the cooldown and was
\* closed again by the successes of its probes, while another call is in flight.
C31_Witness ==
    /\ cb.state = "CLOSED"
    /\ cb.last_failure_time > 0
    /\ Elapsed > TimeoutSeconds
    /\ probe_successes = HalfOpenAttempts
    /\ \E c \in Callers : caller_pc[c] = "invoked"

\* C32: if from some point on every invoked call succeeds, calls keep arriving and
\* time advances, a breaker that is OPEN or HALF_OPEN eventually becomes CLOSED.
C32_OpenEventuallyCloses ==
    (cb.state # "CLOSED") ~> (cb.state = "CLOSED")

\* C32 witness: a breaker closed again by its probes after a failure as late as the
\* predictor's recovery allows, the cooldown having just elapsed.
C32_Witness ==
    /\ cb.state = "CLOSED"
    /\ cb.last_failure_time > 0
    /\ cb.last_failure_time + TimeoutSeconds + 1 = MaxTime
    /\ now = MaxTime
    /\ probe_successes = HalfOpenAttempts

\* every direct caller's call has returned func's result, and each of these calls ran
\* while another was in flight
AllReturnedConcurrently ==
    /\ concurrent = Callers
    /\ \A c \in Callers : caller_pc[c] = "done" /\ caller_result[c] = "returned"

\* C33: calls that run concurrently on a CLOSED breaker and succeed each return their
\* result, and leave the breaker CLOSED with failure counter 0: a call entered on a
\* CLOSED breaker is invoked however many calls are in flight and writes nothing; the
\* success of one leaves the breaker CLOSED with the counter 0 and does not touch the
\* other calls; once all the concurrent calls have returned, a CLOSED breaker has
\* counted no failure.
C33_ConcurrentSuccessesStayClosed ==
    /\ [][ \A c \in Callers :
            /\ (Enters(c) /\ cb.state = "CLOSED")
                => (caller_pc'[c] = "invoked" /\ cb' = cb)
            /\ (Succeeds(c) /\ cb.state = "CLOSED")
                => /\ cb' = [cb EXCEPT !.failure_count = 0]
                   /\ \A d \in Callers \ {c} :
                        caller_pc'[d] = caller_pc[d] /\ caller_result'[d] = caller_result[d]
         ]_vars
    /\ []((AllReturnedConcurrently /\ cb.state = "CLOSED")
            => (cb.failure_count = 0 /\ streak = 0))

\* C33 witness: all the callers' calls overlapped and have returned on a breaker that
\* has been CLOSED since a failure it had counted; the counter is back at 0.
C33_Witness ==
    /\ AllReturnedConcurrently
    /\ cb.state = "CLOSED"
    /\ cb.failure_count = 0
    /\ cb.last_failure_time > 0
    /\ Elapsed =< TimeoutSeconds

\* C34 as stated: a call invoked before the breaker opened that completes, by success
\* or by failure, while the breaker is OPEN writes no field of the breaker; the failure
\* counter never exceeds FailureThreshold.
C34_Original ==
    /\ [][ \A c \in Callers :
            (caller_pc[c] = "invoked" /\ caller_pc'[c] = "done" /\ cb.state = "OPEN")
            => cb' = cb
         ]_vars
    /\ [](cb.failure_count =< FailureThreshold)

\* C34 amended: a call invoked before the breaker opened that completes while the
\* breaker is OPEN leaves it OPEN with the half-open success counter unchanged: by
\* success it writes no field; by failure it adds one to the failure counter and
\* records the time, so the cooldown restarts from that failure; the failure counter
\* exceeds FailureThreshold by at most the number of other calls in flight.
C34_StaleFailureIsRecorded ==
    /\ [][ \A c \in Callers :
            /\ (Succeeds(c) /\ cb.state = "OPEN") => cb' = cb
            /\ (Fails(c) /\ cb.state = "OPEN")
                => cb' = [cb EXCEPT !.failure_count = @ + 1, !.last_failure_time = now]
         ]_vars
    /\ [](cb.failure_count =< FailureThreshold + NumCallers - 1)

\* C34 witness: on an OPEN breaker a call invoked before it opened has failed after the
\* clock advanced: the counter is above the threshold and the cooldown, restarted by
\* that failure, has not elapsed.
C34_Witness ==
    /\ cb.state = "OPEN"
    /\ cb.failure_count = FailureThreshold + 1
    /\ cb.last_failure_time > 0
    /\ Elapsed = 0
    /\ \A c \in Callers : caller_pc[c] = "done" /\ caller_result[c] = "raised"

\* C35: in every reachable state of the breaker the half-open success counter is 0
\* when the state is CLOSED or OPEN and below HalfOpenAttempts when it is HALF_OPEN.
C35_SuccessCounterRange ==
    /\ cb.state \in {"CLOSED", "OPEN"} => cb.success_count = 0
    /\ cb.state = "HALF_OPEN" => cb.success_count \in 0..(HalfOpenAttempts - 1)

\* C35 witness: a breaker re-opened by a failure after a success had been counted in
\* the HALF_OPEN period: the success counter is back at 0.
C35_Witness ==
    /\ cb.state = "OPEN"
    /\ cb.success_count = 0
    /\ cb.failure_count = 1
    /\ probe_successes = HalfOpenAttempts - 1
    /\ probe_successes > 0

----------------------------------------------------------------------------
(* Further claims about the triage state machine, checked under Spec.      *)

\* C36: with a threshold above 0.5 a run whose predictor call failed (refused by the
\* breaker, or raised by the predictor) never reaches SAVE_DB or DONE, and returns in
\* HITL_HANDOFF with requires_hitl = true.
C36_FailedPredictorNeedsReview ==
    (PredictorFailed /\ hitl_threshold > 50)
    => /\ ctx.current_state \in {"CONFIDENCE_CHECK", "HITL_HANDOFF"}
       /\ ctx.confidence = 50
       /\ ~ctx.bypass_ml
       /\ Returned => (ctx.current_state = "HITL_HANDOFF" /\ ctx.requires_hitl)

\* C36 witness: under the default threshold a run whose predictor raised has returned
\* in HITL_HANDOFF with the rule verdict's LOW risk.
C36_Witness ==
    /\ hitl_threshold = 65
    /\ predictor_call = "raised"
    /\ pc = "returned"
    /\ ctx.current_state = "HITL_HANDOFF"
    /\ ctx.requires_hitl
    /\ ctx.final_risk_level = "LOW"

----------------------------------------------------------------------------
(* Further claims about submissions and reviews.                           *)

\* the stored decisions of submission s's token that were older than the TTL window
\* when s made its idempotency check
Expired(s) ==
    {d \in decisions : /\ d.client_sync_uuid = sub[s].client_sync_uuid
                        /\ d.created_at < sub[s].at - IdempotencyTtl}

\* C38 as stated: a submission whose token matches a stored decision older than the
\* TTL window is handled as a new submission: it is answered with an accepted
\* assessment, not with a replay and not with an error.
C38_Original ==
    \A s \in Submissions :
        (Answered(s) /\ Expired(s) # {})
        => (sub[s].response.status = 200 /\ ~sub[s].response.replay)

\* the stored decisions that do not await review: completed without review, or
\* reviewed already
NotAwaitingReview == {d \in decisions : ~d.requires_hitl \/ d.review_status # "PENDING"}

\* C39 as stated: a resolve call is accepted only for a decision with requires_hitl
\* true and review_status PENDING: no step changes a stored decision that ended in
\* DONE or that was reviewed already.
C39_Original ==
    [][ \A d \in NotAwaitingReview : d \in decisions' ]_vars

\* C39 amended: a resolve call is accepted exactly when the case is stored at the
\* expected version, whatever its requires_hitl and review_status; a stored decision
\* is changed only by such a call, which leaves its requires_hitl and fsm_state as
\* they were, sets review_status RESOLVED and raises the version by one.
C39_ResolveChecksVersionOnly ==
    [][ /\ \A k \in Clients :
             Resolves(k) => ((client'[k].result = "True") <=> (Matching(k) # {}))
        /\ \A d \in decisions :
             d \notin decisions' =>
                \E k \in Clients, e \in decisions' :
                    /\ Resolves(k) /\ d \in Matching(k)
                    /\ e._id = d._id
                    /\ e.requires_hitl = d.requires_hitl
                    /\ e.fsm_state = d.fsm_state
                    /\ e.review_status = "RESOLVED"
                    /\ e.reviewed_by = k
                    /\ e.version_id = d.version_id + 1
      ]_vars

\* C39 witness: a decision that ended in DONE, without requires_hitl, has been
\* resolved and then resolved again by another reviewer.
C39_Witness ==
    \E d \in decisions, j, k \in Clients :
        /\ d.fsm_state = "DONE" /\ ~d.requires_hitl
        /\ d.review_status = "RESOLVED"
        /\ d.version_id = 3
        /\ d.reviewed_by = k
        /\ j # k /\ ResolveDone(j) /\ ResolveDone(k)
        /\ client[j].case_id = d._id /\ client[k].case_id = d._id
        /\ client[j].result = "True" /\ client[k].result = "True"
        /\ client[j].expected_version = 1 /\ client[k].expected_version = 2

----------------------------------------------------------------------------
(* A further claim about the rules engine, checked under SpecIntake.       *)

\* C40: for every validated vitals record the verdict has bypass_ml = true if and only
\* if its risk level is CRITICAL, that is, if and only if one of the five critical
\* rules fired; the run's own bypass flag follows the verdict's.
C40_BypassIffCritical ==
    Evaluated =>
        /\ Verdict.bypass_ml <=> (Verdict.risk_level = "CRITICAL")
        /\ Verdict.bypass_ml <=> CriticalFires
        /\ ctx.bypass_ml = Verdict.bypass_ml

\* C40 witness: hyperthermia, advanced age and post-term pregnancy have all fired and
\* no critical rule has: the verdict is HIGH and the predictor is not bypassed.
C40_Witness ==
    /\ Evaluated
    /\ AlertSet = {"HYPERTHERMIA", "ADVANCED_MATERNAL_AGE", "POST_TERM_PREGNANCY"}
    /\ Verdict.risk_level = "HIGH"
    /\ ~Verdict.bypass_ml
    /\ ctx.current_state = "ML_INFERENCE"

====
